---- MODULE Spec2Model ----
(***************************************************************************)
(* Model of the scheduler (pkg/scheduler, plugin scheduler loop) and of    *)
(* the node agent (pkg/kubelet) of the repository.                         *)
(***************************************************************************)
EXTENDS Integers, Sequences, FiniteSets, TLC

(***************************************************************************)
(* Bounds of the model.                                                    *)
(***************************************************************************)
NumPods == 3
NumFullNames == 3
MaxWorkers == 2
MaxBindFailures == 1
MaxRetryTimes == 1

PodIds == 1..NumPods

(***************************************************************************)
(* Generic helpers.                                                        *)
(***************************************************************************)
Min(S) == CHOOSE x \in S : \A y \in S : x <= y

RECURSIVE SortedSeq(_)
SortedSeq(S) == IF S = {} THEN << >> ELSE <<Min(S)>> \o SortedSeq(S \ {Min(S)})

Range(s) == {s[i] : i \in 1..Len(s)}

Take(s, n) == SubSeq(s, 1, n)

RECURSIVE SumSeq(_)
SumSeq(s) == IF s = << >> THEN 0 ELSE Head(s) + SumSeq(Tail(s))

RECURSIVE FilterSeq(_, _)
FilterSeq(s, keep) ==
    IF s = << >> THEN << >>
    ELSE (IF Head(s) \in keep THEN <<Head(s)>> ELSE << >>) \o FilterSeq(Tail(s), keep)

(***************************************************************************)
(* Scheduler state.                                                        *)
(*   minions   the list returned by MinionLister.List()                    *)
(*   podSpec   the Spec (and Annotations) of every pod                     *)
(*   pods      the Status of every pod as stored in the registry           *)
(*   listed    the Status of every pod as seen through the PodLister       *)
(*   queue     the pods NextPod() will hand out, in order                  *)
(*   schedPc   position of the scheduleOne loop, cur the pod it holds      *)
(*   bindCalls / bindOK   Binder.Bind calls made / accepted, per pod       *)
(*   bindFailures         Bind calls the binder rejected so far            *)
(*   lastSel   the input and result of the last Schedule call              *)
(*   errorCalls   the calls of config.Error made so far, per pod           *)
(***************************************************************************)
VARIABLES minions, podSpec, pods, listed, queue, schedPc, cur,
          bindCalls, bindOK, bindFailures, lastSel, errorCalls

schedVars == <<minions, podSpec, pods, listed, queue, schedPc, cur,
               bindCalls, bindOK, bindFailures, lastSel, errorCalls>>

\* The worker pool of the node agent (described with its actions below).
VARIABLES workers, executing, finishing, lastRun

workerVars == <<workers, executing, finishing, lastRun>>

(***************************************************************************)
(* Host port filter of the node agent.                                     *)
(*   portPods      the pod list handed to filterHostPortConflicts; a pod   *)
(*                 is the list of its containers, a container the list of  *)
(*                 the HostPort values of its Ports                        *)
(*   portFiltered  the positions (in portPods) of the pods of the list     *)
(*                 the last call returned, in the order of that list       *)
(***************************************************************************)
VARIABLES portPods, portFiltered

portVars == <<portPods, portFiltered>>

(***************************************************************************)
(* Node agent and container runtime.                                       *)
(*   containers   every container the runtime ever created, in creation    *)
(*                order (the position is the container id and orders       *)
(*                Created); removed ones stay in the list, marked          *)
(*   klPods       kl.pods: the uuids of the bound pods, and whether the    *)
(*                field is still nil                                       *)
(*   syncPc       "idle", or "listed" when SyncPods holds its listing      *)
(*   snapshot     the listing SyncPods took (ids of running containers)    *)
(*   workerSnap   per pod, the listing its dispatched syncPod closure holds*)
(*   minimumGCAge, maxContainerCount   the garbage collector's settings    *)
(*   lastGC       the last GarbageCollectContainers call: a flag that      *)
(*                flips at every call, whether it returned an error, and   *)
(*                the ids it removed                                       *)
(*   lastSync     the SyncPods call that has just returned: its listing,   *)
(*                the containers it called killContainer on and the pods   *)
(*                podWorkers.Run started a worker for                      *)
(*   podDestroyed the uuids that are keys of kl.podDestroyed               *)
(*   lxcfs        the identifiers start_lxcfs.sh was run with and          *)
(*                stop_lxcfs.sh has not been run with since                *)
(***************************************************************************)
VARIABLES containers, klPods, syncPc, snapshot, workerSnap,
          minimumGCAge, maxContainerCount, lastGC, lastSync,
          podDestroyed, lxcfs

kubeVars == <<containers, klPods, syncPc, snapshot, workerSnap,
              minimumGCAge, maxContainerCount, lastGC, lastSync,
              podDestroyed, lxcfs>>

(***************************************************************************)
(* PodCache of the master, the registry it lists and the REST storage      *)
(* that reads it.                                                          *)
(*   nodeSet       the nodes p.nodes.Get finds                             *)
(*   registry      per pod, the Status the registry holds                  *)
(*   declared      per pod, the number of entries of Spec.Containers       *)
(*   podStatus     p.podStatus: per pod a status, or NoStatus              *)
(*   currentNodes  p.currentNodes: per node "miss", "yes" or "no"          *)
(*   sweepPc       "idle", or "probing" inside UpdateAllContainers         *)
(*   sweepPods       the pods ListPods returned to the sweep (NoStatus for   *)
(*                 a pod it did not return)                                *)
(*   probePc       per pod, the position of its probe goroutine            *)
(*   probeExists   per pod, the answer its probe got from p.nodes.Get      *)
(*   absentAll     the nodes that were absent from the node lookup during  *)
(*                 the whole of the last sweep (so far, while it runs)     *)
(*   prevNodes     the nodes p.currentNodes held as existing when the      *)
(*                 last sweep reset it                                     *)
(*   lastREST      the REST Get or List call that has just returned        *)
(***************************************************************************)
VARIABLES nodeSet, registry, declared, podStatus, currentNodes, sweepPc,
          sweepPods, probePc, probeExists, absentAll, prevNodes, lastREST

cacheVars == <<nodeSet, registry, declared, podStatus, currentNodes, sweepPc,
               sweepPods, probePc, probeExists, absentAll, prevNodes, lastREST>>

(***************************************************************************)
(* The node agent's HTTP server and the host behind it.                    *)
(*   hostPods     the full names of kl.pods                                *)
(*   hostImages   the images the local docker daemon has                   *)
(*   hostRunning  the pods whose containers are running                    *)
(*   lastHTTP     the last request served, the error the host returned     *)
(*                for it and the response written                          *)
(***************************************************************************)
VARIABLES hostPods, hostImages, hostRunning, lastHTTP

serverVars == <<hostPods, hostImages, hostRunning, lastHTTP>>

(***************************************************************************)
(* The node agent's desired pods as syncLoop maintains them.               *)
(*   boundPods   kl.pods, a list of [UID, Containers]                      *)
(*   lastEvent   the last PodUpdate read: its Op and Pods, kl.pods before  *)
(*               it and the list before the host port filter               *)
(***************************************************************************)
VARIABLES boundPods, lastEvent

loopVars == <<boundPods, lastEvent>>

(***************************************************************************)
(* Containers with a disk quota, and the xfs project files.                *)
(*   dock      per container: its name (a string of characters), the Disk  *)
(*             it asks for, whether it has a PostStart handler, and its    *)
(*             state in the runtime ("none", "created", "running",         *)
(*             "stopped")                                                  *)
(*   projects, projid   the lines of /etc/projects and /etc/projid         *)
(*   quotaPc   per container, where the goroutine that runs or kills it    *)
(*             stands: the position, the name it refreshes the files for,  *)
(*             the calls it has made in this runContainer or               *)
(*             killContainerByID, and what that returned                   *)
(*   quotaSet  the containers whose addDiskQuota has written its lines and *)
(*             whose removeDiskQuota has not removed them since            *)
(***************************************************************************)
VARIABLES dock, projects, projid, quotaPc, quotaSet

quotaVars == <<dock, projects, projid, quotaPc, quotaSet>>

vars == <<schedVars, workerVars, portVars, kubeVars, cacheVars, serverVars, loopVars,
          quotaVars>>

\* what the disk quota operations leave alone
nonQuotaVars == <<schedVars, workerVars, portVars, kubeVars, cacheVars, serverVars, loopVars>>

\* what syncLoop's reading of updates leaves alone
nonLoopVars == <<schedVars, workerVars, portVars, kubeVars, cacheVars, serverVars,
    quotaVars>>

\* what the HTTP server leaves alone
nonServerVars == <<schedVars, workerVars, portVars, kubeVars, cacheVars, loopVars,
    quotaVars>>

\* what the scheduler's actions leave alone
nonSchedVars == <<workerVars, portVars, kubeVars, cacheVars, serverVars, loopVars,
    quotaVars>>

\* what the worker pool's actions leave alone
nonWorkerVars == <<schedVars, portVars, kubeVars, cacheVars, serverVars, loopVars,
    quotaVars>>

\* what the host port filter leaves alone
nonPortVars == <<schedVars, workerVars, kubeVars, cacheVars, serverVars, loopVars,
    quotaVars>>

\* what the node agent's sync and garbage collection leave alone
nonKubeVars == <<schedVars, portVars, executing, finishing, lastRun, cacheVars, serverVars, loopVars,
    quotaVars>>

\* what the PodCache and the REST storage leave alone
nonCacheVars == <<schedVars, workerVars, portVars, kubeVars, serverVars, loopVars,
    quotaVars>>

\* api.PodNetworkMode values
PodNetworkModeBridge == "bridge"
PodNetworkModeHost == "host"

\* api.PodPhase values
PodPending == "Pending"
PodRunning == "Running"
PodFailed == "Failed"

\* resources.GetIntegerResource: the default is returned when the capacity
\* has no entry for the resource (modelled as Absent).
Absent == -1
GetIntegerResource(capacity, name, def) ==
    IF capacity[name] = Absent THEN def ELSE capacity[name]

EmptyNetwork == [Address |-> "", Gateway |-> "", Bridge |-> << >>, Mode |-> ""]

(***************************************************************************)
(* The NUMA bitmap library (github.com/hustcat/go-lib/bitmap).             *)
(* A bitmap is [size, used]; cores are split evenly over the NUMA nodes,   *)
(* NUMA node k (0-based) owning the cores k*stride .. (k+1)*stride-1.      *)
(***************************************************************************)
NewNumaBitmapSize(size, numaNodes) == [size |-> size, numa |-> numaNodes, used |-> {}]

SetBit(bm, off) == IF off \in 0..(bm.size - 1) THEN [bm EXCEPT !.used = @ \cup {off}] ELSE bm

Get0BitOffs(bm) == SortedSeq((0..(bm.size - 1)) \ bm.used)

NumaStride(bm) == bm.size \div bm.numa

NumaOf(bm, off) == off \div NumaStride(bm)

\* Get0BitOffsNuma listing the used cores with the free ones
Get0BitOffsNumaAll(bm, numaNodes) ==
    [k \in 1..numaNodes |->
        SortedSeq({c \in 0..(bm.size - 1) : NumaOf(bm, c) = k - 1})]

Get0BitOffsNuma(bm, numaNodes) ==
    [k \in 1..numaNodes |->
        SortedSeq({c \in (0..(bm.size - 1)) \ bm.used : NumaOf(bm, c) = k - 1})]

(***************************************************************************)
(* strings.Split(pod.Status.CpuSet, ",") followed by strconv.Atoi on each  *)
(* part, error ignored.  A CpuSet string is modelled by the sequence of    *)
(* its decimal fields; the empty string splits into one empty field, on    *)
(* which Atoi returns 0.                                                   *)
(***************************************************************************)
SplitAtoi(cpuSet) == IF cpuSet = << >> THEN <<0>> ELSE cpuSet

(***************************************************************************)
(* MapPodsToMachines(lister)[host]: the listed pods whose Status.Host is   *)
(* host, in list order.  The result is a sequence of pod ids.              *)
(***************************************************************************)
RECURSIVE PodsOnFrom(_, _, _)
PodsOnFrom(view, host, p) ==
    IF p > NumPods THEN << >>
    ELSE (IF view[p].Host = host THEN <<p>> ELSE << >>) \o PodsOnFrom(view, host, p + 1)

MapPodsToMachines(view, host) == PodsOnFrom(view, host, 1)

(***************************************************************************)
(* Fit predicates.                                                         *)
(***************************************************************************)
GetNodeInfo(nodes, name) ==
    LET ix == {i \in 1..Len(nodes) : nodes[i].Name = name}
    IN  nodes[Min(ix)]

getResourceRequest(spec) ==
    [milliCPU |-> SumSeq([i \in 1..Len(spec.Containers) |-> spec.Containers[i].CPU]),
     memory   |-> SumSeq([i \in 1..Len(spec.Containers) |-> spec.Containers[i].Memory]),
     core     |-> SumSeq([i \in 1..Len(spec.Containers) |-> spec.Containers[i].Core]),
     disk     |-> SumSeq([i \in 1..Len(spec.Containers) |-> spec.Containers[i].Disk])]

PodFitsResources(specs, nodes, p, existingPods, node) ==
    LET podRequest == getResourceRequest(specs[p])
        info == GetNodeInfo(nodes, node)
        vmNum == Len(info.VMs)
        existing == [i \in 1..Len(existingPods) |-> getResourceRequest(specs[existingPods[i]])]
        milliCPURequested == SumSeq([i \in 1..Len(existing) |-> existing[i].milliCPU])
        memoryRequested == SumSeq([i \in 1..Len(existing) |-> existing[i].memory])
        coreRequested == SumSeq([i \in 1..Len(existing) |-> existing[i].core])
        diskRequested == SumSeq([i \in 1..Len(existing) |-> existing[i].disk])
        totalMilliCPU == GetIntegerResource(info.Capacity, "CPU", 0)
        totalMemory == GetIntegerResource(info.Capacity, "Memory", 0)
        totalCore == GetIntegerResource(info.Capacity, "Core", 0)
        totalDisk == GetIntegerResource(info.Capacity, "Disk", 0)
        fitsCPU == totalMilliCPU = 0 \/ (totalMilliCPU - milliCPURequested) >= podRequest.milliCPU
        fitsMemory == totalMemory = 0 \/ (totalMemory - memoryRequested) >= podRequest.memory
        fitsCore == totalCore = 0 \/ (totalCore - coreRequested) >= podRequest.core
        fitsDisk == totalDisk = 0 \/ (totalDisk - diskRequested) >= podRequest.disk
    IN  IF podRequest.milliCPU = 0 /\ podRequest.memory = 0 THEN TRUE
        ELSE IF specs[p].NetworkMode = PodNetworkModeBridge /\ vmNum <= Len(existingPods) THEN FALSE
        ELSE fitsCPU /\ fitsMemory /\ fitsCore /\ fitsDisk

getUsedPorts(specs, podSeq) ==
    UNION {UNION {Range(specs[podSeq[i]].Containers[c].Ports) :
                    c \in 1..Len(specs[podSeq[i]].Containers)} :
             i \in 1..Len(podSeq)}

PodFitsPorts(specs, p, existingPods) ==
    LET existingPorts == getUsedPorts(specs, existingPods)
        wantPorts == getUsedPorts(specs, <<p>>)
    IN  \A wport \in wantPorts : wport = 0 \/ wport \notin existingPorts

NoDiskConflict(specs, p, existingPods) ==
    \A v \in specs[p].Volumes :
        \A i \in 1..Len(existingPods) : v \notin specs[existingPods[i]].Volumes

NoPodAffinity(specs, p, existingPods) ==
    IF specs[p].JobId = "" THEN TRUE
    ELSE \A i \in 1..Len(existingPods) : specs[existingPods[i]].JobId # specs[p].JobId

\* A NodeSelector is a set of <<key, value>> pairs; the value of the key
\* "whitelist" is the set of the names listed in it.
SelectorKeys(sel) == {kv[1] : kv \in sel}

PodSelectorMatches(specs, nodes, p, node) ==
    LET sel == specs[p].NodeSelector
        minion == GetNodeInfo(nodes, node)
        active == <<"active", "false">> \notin minion.Labels
    IN  IF sel = {} THEN TRUE
        ELSE IF "whitelist" \in SelectorKeys(sel)
             THEN \E kv \in sel : kv[1] = "whitelist" /\ node \in kv[2]
        ELSE IF "sriov" \notin SelectorKeys(sel) /\ <<"sriov", "1">> \in minion.Labels
             THEN FALSE
        ELSE (sel \subseteq minion.Labels) /\ active

\* the predicates the scheduler is configured with, ANDed in findNodesThatFit
Fits(specs, view, nodes, p, node) ==
    LET existingPods == MapPodsToMachines(view, node)
    IN  /\ PodFitsPorts(specs, p, existingPods)
        /\ PodFitsResources(specs, nodes, p, existingPods, node)
        /\ NoDiskConflict(specs, p, existingPods)
        /\ PodSelectorMatches(specs, nodes, p, node)
        /\ NoPodAffinity(specs, p, existingPods)

RECURSIVE findNodesThatFit(_, _, _, _, _)
findNodesThatFit(specs, view, all, p, nodes) ==
    IF nodes = << >> THEN << >>
    ELSE (IF Fits(specs, view, all, p, Head(nodes).Name) THEN <<Head(nodes)>> ELSE << >>)
         \o findNodesThatFit(specs, view, all, p, Tail(nodes))

(***************************************************************************)
(* genericScheduler.numaCpuSelect.  Indices are the 0-based indices of the *)
(* code and -1 is "none"; the result is [index, set, panic], panic being   *)
(* the out-of-range index of nodes.Items[noNumaSelectMinion].              *)
(***************************************************************************)
DefaultCoreNum == 24
DefaultCpuNodeNum == 2

reqCoreOf(spec) == SumSeq([i \in 1..Len(spec.Containers) |-> spec.Containers[i].Core])

RECURSIVE MarkUsed(_, _)
MarkUsed(bm, cores) ==
    IF cores = << >> THEN bm ELSE MarkUsed(SetBit(bm, Head(cores)), Tail(cores))

RECURSIVE MarkPods(_, _, _)
MarkPods(bm, view, podSeq) ==
    IF podSeq = << >> THEN bm
    ELSE MarkPods(MarkUsed(bm, SplitAtoi(view[Head(podSeq)].CpuSet)), view, Tail(podSeq))

\* CpuMapOf without the marking of the cores existing pods use
CpuMapOfUnmarked(view, minion) ==
    NewNumaBitmapSize(GetIntegerResource(minion.Capacity, "Core", DefaultCoreNum),
                      GetIntegerResource(minion.Capacity, "CpuNode", DefaultCpuNodeNum))

\* the cpuMap numaCpuSelect builds for one minion
CpuMapOf(view, minion) ==
    LET coreNum == GetIntegerResource(minion.Capacity, "Core", DefaultCoreNum)
        cpuNodeNum == GetIntegerResource(minion.Capacity, "CpuNode", DefaultCpuNodeNum)
    IN  MarkPods(NewNumaBitmapSize(coreNum, cpuNodeNum), view,
                 MapPodsToMachines(view, minion.Name))

\* the first NUMA node (1-based position in freeCores2) offering reqCore free cores, 0 if none
FirstNumaWith(freeCores2, reqCore) ==
    LET ok == {i \in 1..Len(freeCores2) : Len(freeCores2[i]) >= reqCore}
    IN  IF ok = {} THEN 0 ELSE Min(ok)

RECURSIVE NumaLoop(_, _, _, _, _)
NumaLoop(view, nodes, reqCore, index, st) ==
    IF index >= Len(nodes) THEN st
    ELSE LET minion == nodes[index + 1]
             cpuMap == CpuMapOf(view, minion)
             cpuNodeNum == GetIntegerResource(minion.Capacity, "CpuNode", DefaultCpuNodeNum)
             freeCores1 == Get0BitOffs(cpuMap)
             freeCores2 == Get0BitOffsNuma(cpuMap, cpuNodeNum)
             i == FirstNumaWith(freeCores2, reqCore)
             st1 == [st EXCEPT !.noNumaCpuSet = Take(freeCores1, reqCore),
                               !.noNumaSelectMinion = index]
         IN  IF Len(freeCores1) < reqCore
             THEN NumaLoop(view, nodes, reqCore, index + 1, st)
             ELSE IF i # 0
                  THEN [st1 EXCEPT !.numaCpuSet = Take(freeCores2[i], reqCore),
                                   !.numaSelectMinion = index]
                  ELSE NumaLoop(view, nodes, reqCore, index + 1, st1)

numaCpuSelect(specs, view, p, nodes) ==
    LET reqCore == reqCoreOf(specs[p])
        st == NumaLoop(view, nodes, reqCore, 0,
                       [numaCpuSet |-> << >>, numaSelectMinion |-> -1,
                        noNumaCpuSet |-> << >>, noNumaSelectMinion |-> -1])
    IN  IF reqCore = 0 THEN [index |-> 0, set |-> << >>, panic |-> FALSE]
        ELSE IF st.numaCpuSet # << >>
             THEN [index |-> st.numaSelectMinion, set |-> st.numaCpuSet, panic |-> FALSE]
        ELSE IF st.noNumaSelectMinion = -1
             THEN [index |-> -1, set |-> << >>, panic |-> TRUE]
        ELSE [index |-> st.noNumaSelectMinion, set |-> st.noNumaCpuSet, panic |-> FALSE]

(***************************************************************************)
(* allocNetwork: the Network of the Binding for the selected minion.       *)
(***************************************************************************)
\* allocNetwork taking the first VM whether or not a pod uses it
allocNetworkFirstVM(specs, view, p, node) ==
    IF specs[p].NetworkMode # PodNetworkModeBridge
    THEN [EmptyNetwork EXCEPT !.Mode = specs[p].NetworkMode]
    ELSE IF node.VMs = << >> THEN EmptyNetwork
    ELSE [Address |-> node.VMs[1].Address,
          Gateway |-> node.VMs[1].Gateway,
          Bridge  |-> <<"br", node.VMs[1].VlanID>>,
          Mode    |-> specs[p].NetworkMode]

allocNetwork(specs, view, p, node) ==
    LET vms == node.VMs
        podsOn == MapPodsToMachines(view, node.Name)
        free == {i \in 1..Len(vms) :
                    \A k \in 1..Len(podsOn) : vms[i].Address # view[podsOn[k]].Network.Address}
    IN  IF specs[p].NetworkMode # PodNetworkModeBridge
        THEN [EmptyNetwork EXCEPT !.Mode = specs[p].NetworkMode]
        ELSE IF free = {} THEN EmptyNetwork
        ELSE [Address |-> vms[Min(free)].Address,
              Gateway |-> vms[Min(free)].Gateway,
              Bridge  |-> <<"br", vms[Min(free)].VlanID>>,
              Mode    |-> specs[p].NetworkMode]

(***************************************************************************)
(* genericScheduler.Schedule.  kind is "ok", "err" (an error is returned)  *)
(* or "panic" (numaCpuSelect panicked).                                    *)
(***************************************************************************)
NoMachine(kind) == [kind |-> kind, Name |-> "", Network |-> EmptyNetwork, CpuSet |-> << >>]

Schedule(specs, view, p, nodes) ==
    LET filteredNodes == findNodesThatFit(specs, view, nodes, p, nodes)
        sel == numaCpuSelect(specs, view, p, filteredNodes)
        selectedMinion == filteredNodes[sel.index + 1]
    IN  IF Len(nodes) = 0 THEN NoMachine("err")
        ELSE IF Len(filteredNodes) = 0 THEN NoMachine("err")
        ELSE IF sel.panic THEN NoMachine("panic")
        ELSE IF sel.index = -1 THEN NoMachine("err")
        ELSE [kind    |-> "ok",
              Name    |-> selectedMinion.Name,
              Network |-> allocNetwork(specs, view, p, selectedMinion),
              CpuSet  |-> sel.set]

(***************************************************************************)
(* Initial state of the scheduler: every pod is pending and unassigned,    *)
(* and waits in the queue NextPod reads.  Pod specs and the minion list    *)
(* are inputs.                                                             *)
(***************************************************************************)
Ctr(cpu, core, ports) == [CPU |-> cpu, Memory |-> 0, Core |-> core, Disk |-> 0, Ports |-> ports]

PodSpecOf(ctrs, mode, jobid) ==
    [Containers |-> ctrs, NetworkMode |-> mode, Volumes |-> {},
     NodeSelector |-> {}, JobId |-> jobid]

PodTemplates ==
    { PodSpecOf(<<Ctr(0, 0, << >>)>>, PodNetworkModeBridge, ""),
      PodSpecOf(<<Ctr(0, 1, << >>)>>, PodNetworkModeBridge, ""),
      PodSpecOf(<<Ctr(500, 1, <<80>>), Ctr(0, 1, <<0>>)>>, PodNetworkModeBridge, "j"),
      PodSpecOf(<<Ctr(0, 2, << >>)>>, PodNetworkModeHost, "") }

VM(addr) == [Address |-> addr, Gateway |-> "10.0.0.1", VlanID |-> 7]

Minion(name, core, vms) ==
    [Name |-> name,
     Capacity |-> [CPU |-> 1000, Memory |-> 0, Core |-> core, CpuNode |-> 2, Disk |-> Absent],
     Labels |-> {},
     VMs |-> vms]

MinionLists ==
    { <<Minion("n1", 2, <<VM("10.0.0.2"), VM("10.0.0.3")>>), Minion("n2", 4, <<VM("10.0.1.2")>>)>>,
      <<Minion("n1", 4, <<VM("10.0.0.2")>>), Minion("n2", 2, <<VM("10.0.1.2"), VM("10.0.1.3")>>)>>,
      <<Minion("n1", 2, <<VM("10.0.0.2"), VM("10.0.0.3")>>)>> }

PendingStatus ==
    [Phase |-> PodPending, Host |-> "", CpuSet |-> << >>, Network |-> EmptyNetwork,
     SchedulerFailureCount |-> 0]

NoPod == 0

SchedInit ==
    /\ minions \in MinionLists
    /\ podSpec \in [PodIds -> PodTemplates]
    /\ pods = [p \in PodIds |-> PendingStatus]
    /\ listed = [p \in PodIds |-> PendingStatus]
    /\ queue = [i \in 1..NumPods |-> i]
    /\ schedPc = "next"
    /\ cur = NoPod
    /\ bindCalls = [p \in PodIds |-> 0]
    /\ bindOK = [p \in PodIds |-> 0]
    /\ bindFailures = 0
    /\ lastSel = [pod |-> NoPod, before |-> [p \in PodIds |-> PendingStatus],
                  res |-> NoMachine("none")]
    /\ errorCalls = [p \in PodIds |-> 0]

(***************************************************************************)
(* Scheduler.scheduleOne, one action per outcome.  NextPod() blocks until  *)
(* the queue has a pod and removes it; Error(pod, err) puts the pod back   *)
(* for a retry.                                                            *)
(***************************************************************************)
Error(q, p) == Append(q, p)

\* Schedule returns an error
ScheduleOneFail ==
    /\ schedPc = "next" /\ queue # << >>
    /\ LET pod == Head(queue)
           dest == Schedule(podSpec, listed, pod, minions)
       IN  /\ dest.kind = "err"
           /\ lastSel' = [pod |-> pod, before |-> listed, res |-> dest]
           /\ IF pods[pod].SchedulerFailureCount < MaxRetryTimes
              THEN /\ queue' = Error(Tail(queue), pod)
                   /\ errorCalls' = [errorCalls EXCEPT ![pod] = @ + 1]
                   /\ pods' = [pods EXCEPT ![pod].SchedulerFailureCount = @ + 1]
              ELSE /\ queue' = Tail(queue)
                   /\ errorCalls' = errorCalls
                   /\ pods' = [pods EXCEPT ![pod].Phase = PodFailed,
                                           ![pod].SchedulerFailureCount = @ + 1]
    /\ UNCHANGED nonSchedVars /\ UNCHANGED <<minions, podSpec, listed, schedPc, cur, bindCalls, bindOK, bindFailures>>

\* Schedule panics; util.Forever recovers and runs the next iteration
ScheduleOnePanic ==
    /\ schedPc = "next" /\ queue # << >>
    /\ LET pod == Head(queue)
           dest == Schedule(podSpec, listed, pod, minions)
       IN  /\ dest.kind = "panic"
           /\ lastSel' = [pod |-> pod, before |-> listed, res |-> dest]
           /\ queue' = Tail(queue)
    /\ UNCHANGED nonSchedVars /\ UNCHANGED <<minions, podSpec, pods, listed, schedPc, cur, bindCalls, bindOK, bindFailures, errorCalls>>

\* Schedule succeeds, Binder.Bind rejects the Binding
ScheduleOneBindRejected ==
    /\ schedPc = "next" /\ queue # << >>
    /\ bindFailures < MaxBindFailures
    /\ LET pod == Head(queue)
           dest == Schedule(podSpec, listed, pod, minions)
       IN  /\ dest.kind = "ok"
           /\ lastSel' = [pod |-> pod, before |-> listed, res |-> dest]
           /\ bindCalls' = [bindCalls EXCEPT ![pod] = @ + 1]
           /\ bindFailures' = bindFailures + 1
           /\ queue' = Error(Tail(queue), pod)
           /\ errorCalls' = [errorCalls EXCEPT ![pod] = @ + 1]
    /\ UNCHANGED nonSchedVars /\ UNCHANGED <<minions, podSpec, pods, listed, schedPc, cur, bindOK>>

\* ScheduleOneBind handing the pod to Error although Bind succeeded
ScheduleOneBindRequeued ==
    /\ schedPc = "next" /\ queue # << >>
    /\ bindCalls[Head(queue)] < MaxBindFailures + 1
    /\ LET pod == Head(queue)
           dest == Schedule(podSpec, listed, pod, minions)
       IN  /\ dest.kind = "ok"
           /\ lastSel' = [pod |-> pod, before |-> listed, res |-> dest]
           /\ bindCalls' = [bindCalls EXCEPT ![pod] = @ + 1]
           /\ bindOK' = [bindOK EXCEPT ![pod] = @ + 1]
           /\ pods' = [pods EXCEPT ![pod].Host = dest.Name,
                                   ![pod].CpuSet = dest.CpuSet,
                                   ![pod].Network = dest.Network]
           /\ queue' = Error(Tail(queue), pod)
           /\ errorCalls' = [errorCalls EXCEPT ![pod] = @ + 1]
           /\ cur' = pod
           /\ schedPc' = "poll"
    /\ UNCHANGED nonSchedVars /\ UNCHANGED <<minions, podSpec, listed, bindFailures>>

\* Schedule succeeds and Binder.Bind stores the Binding; scheduleOne then
\* polls CheckScheduledPod
ScheduleOneBind ==
    /\ schedPc = "next" /\ queue # << >>
    /\ LET pod == Head(queue)
           dest == Schedule(podSpec, listed, pod, minions)
       IN  /\ dest.kind = "ok"
           /\ lastSel' = [pod |-> pod, before |-> listed, res |-> dest]
           /\ bindCalls' = [bindCalls EXCEPT ![pod] = @ + 1]
           /\ bindOK' = [bindOK EXCEPT ![pod] = @ + 1]
           /\ pods' = [pods EXCEPT ![pod].Host = dest.Name,
                                   ![pod].CpuSet = dest.CpuSet,
                                   ![pod].Network = dest.Network]
           /\ queue' = Tail(queue)
           /\ cur' = pod
           /\ schedPc' = "poll"
    /\ UNCHANGED nonSchedVars /\ UNCHANGED <<minions, podSpec, listed, bindFailures, errorCalls>>

\* CheckScheduledPod(pod.Name): the pod list shows the pod as assigned
CheckScheduledPod(view, p) == view[p].Host # ""

\* a scheduleOne that emits the scheduled event without the poll
ScheduleOneScheduledUnpolled ==
    /\ schedPc = "poll"
    /\ schedPc' = "next"
    /\ cur' = NoPod
    /\ UNCHANGED nonSchedVars /\ UNCHANGED <<minions, podSpec, pods, listed, queue, bindCalls, bindOK, bindFailures, lastSel, errorCalls>>

\* the poll loop of scheduleOne finds CheckScheduledPod true; scheduleOne
\* emits the scheduled event and returns, and Forever calls it again
ScheduleOneScheduled ==
    /\ schedPc = "poll"
    /\ CheckScheduledPod(listed, cur)
    /\ schedPc' = "next"
    /\ cur' = NoPod
    /\ UNCHANGED nonSchedVars /\ UNCHANGED <<minions, podSpec, pods, listed, queue, bindCalls, bindOK, bindFailures, lastSel, errorCalls>>

\* the PodLister catches up with the registry
ListerSync ==
    /\ listed # pods
    /\ listed' = pods
    /\ UNCHANGED nonSchedVars /\ UNCHANGED <<minions, podSpec, pods, queue, schedPc, cur, bindCalls, bindOK,
                   bindFailures, lastSel, errorCalls>>

SchedNext ==
    \/ ScheduleOneFail
    \/ ScheduleOnePanic
    \/ ScheduleOneBindRejected
    \/ ScheduleOneBind
    \/ ScheduleOneScheduled
    \/ ListerSync

\* C16: every scheduleOne step that fails for a pod, with an error of
\* Schedule or with an error of Binder.Bind, increments the pod's
\* SchedulerFailureCount by one and calls Error for the pod
C16_FailureCountsAndRetries ==
    [][\A p \in PodIds :
          (\/ ScheduleOneFail /\ Head(queue) = p
           \/ ScheduleOneBindRejected /\ Head(queue) = p)
          => /\ pods'[p].SchedulerFailureCount = pods[p].SchedulerFailureCount + 1
             /\ errorCalls'[p] = errorCalls[p] + 1]_vars

\* C17: a pod none of whose attempts succeeded has been handed to Error at
\* most MaxRetryTimes times, and once more than MaxRetryTimes of its
\* attempts (in Schedule or in Bind) have failed its Phase is Failed
C17_RetriesBounded ==
    \A p \in PodIds :
        bindOK[p] = 0 =>
            /\ errorCalls[p] <= MaxRetryTimes
            /\ pods[p].SchedulerFailureCount + bindCalls[p] > MaxRetryTimes
                   => pods[p].Phase = PodFailed

\* C38: scheduleOne emits the scheduled event for a pod only when
\* Binder.Bind has accepted the pod's Binding and CheckScheduledPod is true
\* for it; from the Bind to the event NextPod is not called (the queue is
\* not read, Schedule and Bind are not called, no pod is assigned); and once
\* CheckScheduledPod is true for the pod the iteration ends.
C38_ScheduledAfterBindAndPoll ==
    /\ [][(schedPc = "poll" /\ schedPc' = "next") =>
             /\ bindOK[cur] >= 1
             /\ CheckScheduledPod(listed, cur)]_vars
    /\ [][schedPc = "poll" =>
             /\ queue' = queue
             /\ bindCalls' = bindCalls
             /\ pods' = pods
             /\ lastSel' = lastSel
             /\ cur' \in {cur, NoPod}]_vars
    /\ (schedPc = "poll" /\ CheckScheduledPod(listed, cur)) ~> (schedPc = "next")

\* the scheduled event of a pod has been emitted after the poll loop waited
\* for the pod list to show the pod, while another pod was in the queue
C38_Witness ==
    /\ schedPc = "next"
    /\ queue # << >>
    /\ \E p \in PodIds : bindOK[p] >= 1 /\ CheckScheduledPod(listed, p)

SchedIdle ==
    /\ minions = << >> /\ podSpec = << >> /\ pods = << >> /\ listed = << >>
    /\ queue = << >> /\ schedPc = "off" /\ cur = NoPod
    /\ bindCalls = << >> /\ bindOK = << >> /\ bindFailures = 0
    /\ lastSel = << >> /\ errorCalls = << >>

(***************************************************************************)
(* Properties of the scheduler.                                            *)
(***************************************************************************)
CoresOf(view, p) == Range(view[p].CpuSet)

\* C2: on every node the CpuSets of the pods bound to it are pairwise
\* disjoint, and no CpuSet lists a core twice.
C2_CpuSetDisjoint ==
    /\ \A p \in PodIds : Cardinality(CoresOf(pods, p)) = Len(pods[p].CpuSet)
    /\ \A p, q \in PodIds :
          (p # q /\ pods[p].Host # "" /\ pods[p].Host = pods[q].Host)
             => CoresOf(pods, p) \cap CoresOf(pods, q) = {}

C2_Witness ==
    \E p, q \in PodIds :
       /\ p # q /\ pods[p].Host # "" /\ pods[p].Host = pods[q].Host
       /\ pods[p].CpuSet # << >> /\ pods[q].CpuSet # << >>
       /\ schedPc = "next"

\* the cores of a minion that no pod bound to it records in its CpuSet
CoreNumOf(minion) == GetIntegerResource(minion.Capacity, "Core", DefaultCoreNum)
CpuNodeNumOf(minion) == GetIntegerResource(minion.Capacity, "CpuNode", DefaultCpuNodeNum)

FreeCores(view, minion) ==
    (0..(CoreNumOf(minion) - 1)) \
        UNION {CoresOf(view, p) : p \in {q \in PodIds : view[q].Host = minion.Name}}

NumaNodeOfCore(minion, c) == c \div (CoreNumOf(minion) \div CpuNodeNumOf(minion))

\* the minion offers n free cores inside one NUMA node
OffersNumaCoherent(view, minion, n) ==
    \E k \in 0..(CpuNodeNumOf(minion) - 1) :
        Cardinality({c \in FreeCores(view, minion) : NumaNodeOfCore(minion, c) = k}) >= n

NumaCoherent(minion, cores) ==
    \A c, d \in cores : NumaNodeOfCore(minion, c) = NumaNodeOfCore(minion, d)

LastFiltered == findNodesThatFit(podSpec, lastSel.before, minions, lastSel.pod, minions)

\* C3: when some filtered node offers reqCore (> 0) free cores inside one
\* NUMA node, Schedule returns a node and a CpuSet lying in one NUMA node of it.
C3_NumaPreference ==
    (/\ lastSel.pod # NoPod
     /\ reqCoreOf(podSpec[lastSel.pod]) > 0
     /\ \E i \in 1..Len(LastFiltered) :
           OffersNumaCoherent(lastSel.before, LastFiltered[i], reqCoreOf(podSpec[lastSel.pod])))
    => /\ lastSel.res.kind = "ok"
       /\ NumaCoherent(GetNodeInfo(minions, lastSel.res.Name), Range(lastSel.res.CpuSet))

\* C4 as stated: while a pod is Pending, Binder.Bind has been called for it
\* at most once.
C4_SingleBindCall ==
    \A p \in PodIds : pods[p].Phase = PodPending => bindCalls[p] <= 1

\* C4, amended: Binder.Bind accepts at most one Binding per pod (a rejected
\* Binding sends the pod to Error, and a later iteration binds it again).
C4_SingleAcceptedBinding ==
    \A p \in PodIds : bindOK[p] <= 1

C4_Witness ==
    \E p \in PodIds : bindCalls[p] >= 2 /\ bindOK[p] = 1 /\ pods[p].Phase = PodPending

\* C5: on every node no VM Address is held by two pods bound to that node.
C5_VMAddressUnique ==
    \A p, q \in PodIds :
        (/\ p # q /\ pods[p].Host # "" /\ pods[p].Host = pods[q].Host
         /\ pods[p].Network.Address # "")
        => pods[p].Network.Address # pods[q].Network.Address

C5_Witness ==
    \E p, q \in PodIds :
        /\ p # q /\ pods[p].Host # "" /\ pods[p].Host = pods[q].Host
        /\ podSpec[p].NetworkMode = PodNetworkModeBridge
        /\ podSpec[q].NetworkMode = PodNetworkModeBridge
        /\ pods[p].Network.Address # "" /\ pods[q].Network.Address # ""

\* C10: when exactly one listed node passes all predicates, Schedule
\* returns that node.
C10_OnlyFitChosen ==
    (lastSel.pod # NoPod /\ Len(LastFiltered) = 1)
    => (lastSel.res.kind = "ok" /\ lastSel.res.Name = LastFiltered[1].Name)

\* the pods the view of the last Schedule call shows on a node
ExistingOn(name) == {q \in PodIds : lastSel.before[q].Host = name}

\* C22: for a bridge-mode pod Schedule places, the Network is that of the
\* first VM of the chosen node whose Address no existing pod of the node
\* holds: its Address and Gateway, Bridge "br" with its VlanID, Mode bridge;
\* the Address is not empty
C22_BridgeNetworkFirstFreeVM ==
    (/\ lastSel.pod # NoPod
     /\ lastSel.res.kind = "ok"
     /\ podSpec[lastSel.pod].NetworkMode = PodNetworkModeBridge)
    => LET vms == GetNodeInfo(minions, lastSel.res.Name).VMs
           held == {lastSel.before[q].Network.Address : q \in ExistingOn(lastSel.res.Name)}
       IN  /\ lastSel.res.Network.Address # ""
           /\ \E i \in 1..Len(vms) :
                 /\ vms[i].Address \notin held
                 /\ \A j \in 1..(i - 1) : vms[j].Address \in held
                 /\ lastSel.res.Network = [Address |-> vms[i].Address,
                                           Gateway |-> vms[i].Gateway,
                                           Bridge  |-> <<"br", vms[i].VlanID>>,
                                           Mode    |-> PodNetworkModeBridge]

\* the free cores of a minion as numaCpuSelect counts them
FreeCores1(view, minion) == Get0BitOffs(CpuMapOf(view, minion))

\* C24: when reqCore > 0 and no filtered node has reqCore free cores,
\* Schedule returns an error value (it does not panic and returns no
\* destination), and scheduleOne counts the failure
C24_NoCoresIsAnError ==
    (/\ lastSel.pod # NoPod
     /\ reqCoreOf(podSpec[lastSel.pod]) > 0
     /\ Len(LastFiltered) > 0
     /\ \A i \in 1..Len(LastFiltered) :
           Len(FreeCores1(lastSel.before, LastFiltered[i])) < reqCoreOf(podSpec[lastSel.pod]))
    => /\ lastSel.res.kind = "err"
       /\ pods[lastSel.pod].SchedulerFailureCount > 0

\* C25: the used-core bitmap built for a node marks exactly the core
\* indices below the node's core count that the CpuSets of the node's
\* existing pods list; an empty CpuSet marks nothing
C25_BitmapMarksListedCores ==
    (lastSel.pod # NoPod /\ reqCoreOf(podSpec[lastSel.pod]) > 0)
    => \A i \in 1..Len(LastFiltered) :
          CpuMapOf(lastSel.before, LastFiltered[i]).used =
              UNION {CoresOf(lastSel.before, q) : q \in ExistingOn(LastFiltered[i].Name)}
                 \cap (0..(CoreNumOf(LastFiltered[i]) - 1))

\* C26: when Schedule succeeds the node is one of the filtered nodes; for
\* reqCore > 0 the CpuSet has exactly reqCore distinct cores, each below
\* the node's core count and in no existing pod's CpuSet on that node; for
\* reqCore = 0 the node is the first filtered node and the CpuSet is empty
C26_SelectedCoresAreFree ==
    (lastSel.pod # NoPod /\ lastSel.res.kind = "ok")
    => LET reqCore == reqCoreOf(podSpec[lastSel.pod])
           node == GetNodeInfo(minions, lastSel.res.Name)
           set == lastSel.res.CpuSet
       IN  /\ \E i \in 1..Len(LastFiltered) : LastFiltered[i].Name = lastSel.res.Name
           /\ reqCore > 0 =>
                 /\ Len(set) = reqCore
                 /\ Cardinality(Range(set)) = reqCore
                 /\ \A c \in Range(set) :
                       /\ c \in 0..(CoreNumOf(node) - 1)
                       /\ \A q \in ExistingOn(node.Name) : c \notin CoresOf(lastSel.before, q)
           /\ reqCore = 0 =>
                 /\ lastSel.res.Name = LastFiltered[1].Name
                 /\ set = << >>

\* a pod asking for cores was placed on a node where an existing pod holds cores
C26_Witness ==
    /\ lastSel.pod # NoPod /\ lastSel.res.kind = "ok"
    /\ reqCoreOf(podSpec[lastSel.pod]) > 0
    /\ \E q \in ExistingOn(lastSel.res.Name) : lastSel.before[q].CpuSet # << >>

\* the sum of a resource over the requests of a set of pods
RECURSIVE Requested(_, _)
Requested(ps, res) ==
    IF ps = {} THEN 0
    ELSE LET q == CHOOSE x \in ps : TRUE
         IN  getResourceRequest(podSpec[q])[res] + Requested(ps \ {q}, res)

\* C27: PodFitsResources is true only if, for MilliCPU, Memory, Core and
\* Disk, the node's capacity is zero or the existing requests plus the
\* pod's do not exceed it, and, for a bridge-mode pod, the node has more
\* VMs than existing pods
C27_FitsOnlyWithinCapacity ==
    lastSel.pod # NoPod =>
        \A i \in 1..Len(minions) :
            LET node == minions[i]
                p == lastSel.pod
                ex == ExistingOn(node.Name)
                within(res, cap) ==
                    \/ GetIntegerResource(node.Capacity, cap, 0) = 0
                    \/ Requested(ex, res) + getResourceRequest(podSpec[p])[res]
                          <= GetIntegerResource(node.Capacity, cap, 0)
            IN  PodFitsResources(podSpec, minions, p,
                                 MapPodsToMachines(lastSel.before, node.Name), node.Name)
                => /\ within("milliCPU", "CPU")
                   /\ within("memory", "Memory")
                   /\ within("core", "Core")
                   /\ within("disk", "Disk")
                   /\ podSpec[p].NetworkMode = PodNetworkModeBridge
                         => Len(node.VMs) > Cardinality(ex)

(***************************************************************************)
(* The scheduler over labelled nodes and pods with node selectors: nodes   *)
(* of two NUMA nodes with two cores each, one of them labelled             *)
(* active=false and one sriov=1, and pods that ask for three cores, name a *)
(* whitelist or select by label.                                           *)
(***************************************************************************)
LabelledMinion(name, core, vms, labels) ==
    [Minion(name, core, vms) EXCEPT !.Labels = labels]

PlaceMinionLists ==
    { <<LabelledMinion("n1", 4, <<VM("10.0.0.2"), VM("10.0.0.3")>>,
                       {<<"active", "false">>, <<"zone", "a">>}),
        LabelledMinion("n2", 4, <<VM("10.0.1.2")>>,
                       {<<"sriov", "1">>, <<"zone", "a">>})>>,
      <<LabelledMinion("n1", 4, <<VM("10.0.0.2"), VM("10.0.0.3")>>, {<<"zone", "a">>}),
        LabelledMinion("n2", 4, <<VM("10.0.1.2")>>, {<<"zone", "b">>})>> }

SelectingPod(ctrs, mode, sel) ==
    [PodSpecOf(ctrs, mode, "") EXCEPT !.NodeSelector = sel]

PlaceTemplates ==
    { SelectingPod(<<Ctr(0, 3, << >>)>>, PodNetworkModeHost, {}),
      SelectingPod(<<Ctr(500, 0, << >>)>>, PodNetworkModeBridge, {<<"whitelist", {"n1"}>>}),
      SelectingPod(<<Ctr(500, 1, << >>)>>, PodNetworkModeBridge, {<<"zone", "a">>}),
      SelectingPod(<<Ctr(500, 1, << >>)>>, PodNetworkModeHost,
                   {<<"sriov", "1">>, <<"zone", "a">>}) }

PlaceInit ==
    /\ minions \in PlaceMinionLists
    /\ podSpec \in [PodIds -> PlaceTemplates]
    /\ pods = [p \in PodIds |-> PendingStatus]
    /\ listed = [p \in PodIds |-> PendingStatus]
    /\ queue = [i \in 1..NumPods |-> i]
    /\ schedPc = "next"
    /\ cur = NoPod
    /\ bindCalls = [p \in PodIds |-> 0]
    /\ bindOK = [p \in PodIds |-> 0]
    /\ bindFailures = 0
    /\ lastSel = [pod |-> NoPod, before |-> [p \in PodIds |-> PendingStatus],
                  res |-> NoMachine("none")]
    /\ errorCalls = [p \in PodIds |-> 0]

\* the free cores numaCpuSelect counts inside the NUMA nodes of a minion
FreeCores2(view, minion) == Get0BitOffsNuma(CpuMapOf(view, minion), CpuNodeNumOf(minion))

\* the filtered nodes (positions) with reqCore free cores overall
WithFreeCores(reqCore) ==
    {i \in 1..Len(LastFiltered) : Len(FreeCores1(lastSel.before, LastFiltered[i])) >= reqCore}

\* C23: for reqCore > 0, when no filtered node offers reqCore free cores
\* inside one NUMA node, the result is the first filtered node with reqCore
\* free cores overall and the first reqCore free cores of that node
C23_FallbackIsFirstNode ==
    LET reqCore == reqCoreOf(podSpec[lastSel.pod])
    IN  (/\ lastSel.pod # NoPod
         /\ reqCore > 0
         /\ WithFreeCores(reqCore) # {}
         /\ \A i \in 1..Len(LastFiltered) :
               FirstNumaWith(FreeCores2(lastSel.before, LastFiltered[i]), reqCore) = 0)
        => LET first == LastFiltered[Min(WithFreeCores(reqCore))]
           IN  /\ lastSel.res.kind = "ok"
               /\ lastSel.res.Name = first.Name
               /\ lastSel.res.CpuSet = Take(FreeCores1(lastSel.before, first), reqCore)

\* C28: PodSelectorMatches lets no node labelled active=false pass,
\* whatever the pod's NodeSelector, and no pod is bound to such a node
C28_InactiveNodeRejected ==
    /\ lastSel.pod # NoPod =>
          \A i \in 1..Len(minions) :
              <<"active", "false">> \in minions[i].Labels
                 => ~PodSelectorMatches(podSpec, minions, lastSel.pod, minions[i].Name)
    /\ \A p \in PodIds :
          pods[p].Host # ""
             => <<"active", "false">> \notin GetNodeInfo(minions, pods[p].Host).Labels

\* C29: PodSelectorMatches lets no node labelled sriov=1 pass for a pod
\* whose NodeSelector has no key sriov
C29_SriovNodeRejected ==
    (lastSel.pod # NoPod /\ "sriov" \notin SelectorKeys(podSpec[lastSel.pod].NodeSelector))
    => \A i \in 1..Len(minions) :
          <<"sriov", "1">> \in minions[i].Labels
             => ~PodSelectorMatches(podSpec, minions, lastSel.pod, minions[i].Name)

(***************************************************************************)
(* podWorkers (pkg/kubelet): the set of pod full names with a worker, and  *)
(* the goroutines Run started.                                             *)
(*   workers     podWorkers.workers                                        *)
(*   executing   per name, the goroutines that are inside action()         *)
(*   finishing   per name, the goroutines whose action returned and that   *)
(*               wait for the lock to delete their entry                   *)
(*   lastRun     the last Run call and whether it started a goroutine      *)
(***************************************************************************)
FullNames == 1..NumFullNames

NoName == 0

WorkersInit ==
    /\ workers = {}
    /\ executing = [n \in FullNames |-> 0]
    /\ finishing = [n \in FullNames |-> 0]
    /\ lastRun = [name |-> NoName, started |-> FALSE]

\* Run that starts the worker without looking at the set
RunStartsUnchecked(w, podFullName) == TRUE

\* podWorkers.Run: does this call start a goroutine?
RunStarts(w, podFullName) == podFullName \notin w

Run(podFullName) ==
    /\ executing[podFullName] + finishing[podFullName] < MaxWorkers
    /\ IF RunStarts(workers, podFullName)
       THEN /\ workers' = workers \cup {podFullName}
            /\ executing' = [executing EXCEPT ![podFullName] = @ + 1]
            /\ lastRun' = [name |-> podFullName, started |-> TRUE]
       ELSE /\ lastRun' = [name |-> podFullName, started |-> FALSE]
            /\ UNCHANGED <<workers, executing>>
    /\ UNCHANGED finishing
    /\ UNCHANGED nonWorkerVars

\* action() returns
ActionReturns(podFullName) ==
    /\ executing[podFullName] > 0
    /\ executing' = [executing EXCEPT ![podFullName] = @ - 1]
    /\ finishing' = [finishing EXCEPT ![podFullName] = @ + 1]
    /\ UNCHANGED <<workers, lastRun>> /\ UNCHANGED nonWorkerVars

\* action() panics: the deferred HandleCrash recovers and the goroutine
\* ends; the statements after action() do not run
ActionPanics(podFullName) ==
    /\ executing[podFullName] > 0
    /\ executing' = [executing EXCEPT ![podFullName] = @ - 1]
    /\ UNCHANGED <<workers, finishing, lastRun>> /\ UNCHANGED nonWorkerVars

\* the goroutine takes the lock and deletes its entry
WorkerDeletes(podFullName) ==
    /\ finishing[podFullName] > 0
    /\ workers' = workers \ {podFullName}
    /\ finishing' = [finishing EXCEPT ![podFullName] = @ - 1]
    /\ UNCHANGED <<executing, lastRun>> /\ UNCHANGED nonWorkerVars

WorkersNext ==
    \E n \in FullNames :
        \/ Run(n)
        \/ ActionReturns(n)
        \/ ActionPanics(n)
        \/ WorkerDeletes(n)


\* C1: for every podFullName at most one dispatched action is executing.
C1_AtMostOneWorker ==
    \A n \in FullNames : executing[n] <= 1

C1_Witness ==
    \E n \in FullNames :
        executing[n] = 1 /\ lastRun = [name |-> n, started |-> FALSE]

\* C14: a panic in an action does not poison the pool: a name is in the
\* in-flight set only while a goroutine started for it is executing its
\* action or is about to delete the entry, so that once the panicking
\* worker has ended a later Run for the name starts its action.
C14_PanicDoesNotPoison ==
    \A n \in FullNames :
        n \in workers => executing[n] + finishing[n] > 0

MaxPortPods == 3

\* the pods an update can carry: the HostPorts of each container
PortPodTemplates ==
    { <<<<80>>>>,
      <<<<81>>, <<80>>>>,
      <<<<0, 0>>>>,
      <<<<81>>>>,
      <<<<82>>, <<0, 82>>>> }

PortPodLists == UNION {[1..n -> PortPodTemplates] : n \in 0..MaxPortPods}

\* the loop over the Ports of a container that marks every port and
\* reports no duplicate
AccumulatePortsUnchecked(ports, state) ==
    [state EXCEPT !.accumulator = @ \cup (Range(ports) \ {0})]

\* the inner loop of AccumulateUniquePorts over the Ports of one container
RECURSIVE AccumulatePorts(_, _)
AccumulatePorts(ports, state) ==
    IF ports = << >> THEN state
    ELSE LET port == Head(ports)
         IN IF port = 0 THEN AccumulatePorts(Tail(ports), state)
            ELSE IF port \in state.accumulator
                 THEN AccumulatePorts(Tail(ports),
                                      [state EXCEPT !.errs = Append(@, port)])
                 ELSE AccumulatePorts(Tail(ports),
                                      [state EXCEPT !.accumulator = @ \cup {port}])

\* AccumulateUniquePorts: the accumulator after the call and the errors
\* (the duplicated ports) it returns
RECURSIVE AccumulateUniquePorts(_, _)
AccumulateUniquePorts(ctrs, state) ==
    IF ctrs = << >> THEN state
    ELSE AccumulateUniquePorts(Tail(ctrs), AccumulatePorts(Head(ctrs), state))

\* the loop of filterHostPortConflicts from pod i on: ports is the map
\* shared by all pods, filtered the positions of the pods kept so far
RECURSIVE filterLoop(_, _, _, _)
filterLoop(podList, i, ports, filtered) ==
    IF i > Len(podList) THEN filtered
    ELSE LET r == AccumulateUniquePorts(podList[i],
                                        [accumulator |-> ports, errs |-> << >>])
         IN filterLoop(podList, i + 1, r.accumulator,
                       IF Len(r.errs) # 0 THEN filtered ELSE Append(filtered, i))

filterHostPortConflicts(podList) == filterLoop(podList, 1, {}, << >>)

PortsInit ==
    /\ portPods = << >>
    /\ portFiltered = << >>

\* syncLoop, case SET: kl.pods = filterHostPortConflicts(u.Pods)
SyncLoopSET ==
    \E u \in PortPodLists :
        /\ portPods' = u
        /\ portFiltered' = filterHostPortConflicts(u)
        /\ UNCHANGED nonPortVars

PortsNext == SyncLoopSET

\* the HostPort a declaration <<pod, container, index>> names
PortAt(d) == portPods[d[1]][d[2]][d[3]]

\* the declarations of a non-zero HostPort in the pods of the returned list
KeptDeclarations ==
    LET ofCtr(i, c) == {<<i, c, k>> : k \in 1..Len(portPods[i][c])}
        ofPod(i) == UNION {ofCtr(i, c) : c \in 1..Len(portPods[i])}
        all == UNION {ofPod(portFiltered[n]) : n \in 1..Len(portFiltered)}
    IN {d \in all : PortAt(d) # 0}

\* C7: the list filterHostPortConflicts returns holds no two declarations
\* (in two pods, or in one pod) of the same non-zero HostPort.
C7_NoDuplicateHostPort ==
    \A d, e \in KeptDeclarations : d # e => PortAt(d) # PortAt(e)

\* a call that dropped a pod and kept two pods that declare host ports
C7_Witness ==
    /\ Len(portFiltered) < Len(portPods)
    /\ \E m, n \in 1..Len(portFiltered) :
           /\ m # n
           /\ \E d, e \in KeptDeclarations :
                  d[1] = portFiltered[m] /\ e[1] = portFiltered[n]

\* the non-zero HostPorts the pod at position i of the update declares
HostPortsOf(i) ==
    UNION {Range(portPods[i][c]) : c \in 1..Len(portPods[i])} \ {0}

\* the pod at position i declares some non-zero HostPort twice
RepeatsHostPort(i) ==
    \E c, d \in 1..Len(portPods[i]) :
        \E k \in 1..Len(portPods[i][c]), l \in 1..Len(portPods[i][d]) :
            /\ <<c, k>> # <<d, l>>
            /\ portPods[i][c][k] # 0
            /\ portPods[i][c][k] = portPods[i][d][l]

\* C30: a pod is dropped only when one of its non-zero HostPorts is a
\* HostPort of an earlier pod of the list that was kept, or is repeated
\* inside the pod; the ports of a dropped pod cause no later drop
C30_DroppedOnlyForKeptPort ==
    \A i \in 1..Len(portPods) :
        i \notin Range(portFiltered) =>
            \/ RepeatsHostPort(i)
            \/ \E j \in Range(portFiltered) :
                   j < i /\ HostPortsOf(i) \cap HostPortsOf(j) # {}

(***************************************************************************)
(* Node agent: syncLoop, SyncPods, syncPod and the garbage collector,      *)
(* against a container runtime.                                            *)
(***************************************************************************)
NumKubePods == 1
NumSyncPods == 3
MaxSyncContainers == 2
MaxContainers == 3
MaxGCContainers == 3
MaxGCCount == 1

\* the uuids of the pods an update can bind, which are the uuids the
\* names of the runtime's containers carry
KubePods == 1..NumKubePods

\* the uuids of the pods of the updates SyncPods is followed through
SyncPodIds == 1..NumSyncPods

Max(S) == CHOOSE x \in S : \A y \in S : x >= y

networkContainerName == "net"

\* the name of the one entry of pod.Spec.Containers
appContainerName == "app"

\* the empty DockerID
NoID == 0

RestartPolicies == <<"Always", "OnFailure", "Never">>

sriovMode == "sriov"
bridgeMode == "bridge"

\* the BoundPod of a uuid: its container is appContainerName whatever the
\* pod's own name is
BoundPod(uuid, policy) ==
    [UID |-> uuid,
     Name |-> "pod" \o ToString(uuid),
     RestartPolicy |-> policy,
     Mode |-> IF uuid % 3 = 0 THEN sriovMode ELSE bridgeMode,
     Address |-> ""]

\* the netMode "host" in the place of the id of a net container
HostNetwork == 0 - 1

\* a container as the runtime creates it; one that was never started has
\* a zero FinishedAt, which is older than any minimumGCAge
NewContainer(uuid, name, running, peer) ==
    [uuid |-> uuid, name |-> name, running |-> running, removed |-> FALSE,
     peer |-> peer, old |-> ~running, exitCode |-> 0, setup |-> FALSE]

\* GetKubeletDockerContainers(client, false): the running containers
RunningIds(cs) == {i \in 1..Len(cs) : cs[i].running}

\* GetKubeletDockerContainers(client, true): all containers
AllIds(cs) == {i \in 1..Len(cs) : ~cs[i].removed}

\* the candidates of DockerContainers.FindPodContainer in a listing
FindPodContainer(cs, listing, uuid, name) ==
    {i \in listing : cs[i].uuid = uuid /\ cs[i].name = name}

\* FindPodContainer returns the first match of a map iteration
Pick(S, pick) == IF pick = "lo" THEN Min(S) ELSE Max(S)

\* the containers of that name the runtime holds that are not running
GetRecentDockerContainersWithNameAndUUID(cs, uuid, name) ==
    {i \in AllIds(cs) : cs[i].uuid = uuid /\ cs[i].name = name /\ ~cs[i].running}

\* DockerInterface.StopContainer
StopContainer(cs, id) ==
    IF cs[id].running
    THEN [cs EXCEPT ![id].running = FALSE, ![id].exitCode = 1]
    ELSE cs

\* killContainer on every container of a set
StopAll(cs, ids) ==
    [i \in 1..Len(cs) |-> IF i \in ids THEN StopContainer(cs, i)[i] ELSE cs[i]]

\* OpLxcfs: start_lxcfs.sh or stop_lxcfs.sh run with an identifier
OpLxcfs(running, podId, op) ==
    IF op = "start" THEN running \cup {podId} ELSE running \ {podId}

\* runContainer: the containers afterwards, the id it returns and the
\* identifiers it started lxcfs with.  fail names the call that fails, if
\* any.  The runtime starts a container in the namespace of another one
\* only if that one is running.
runContainer(cs, pod, name, netID, fail) ==
    LET canStart == \/ name = networkContainerName
                    \/ netID = HostNetwork
                    \/ (netID # NoID /\ cs[netID].running)
        peer == IF name = networkContainerName \/ netID = HostNetwork
                THEN NoID ELSE netID
        started == IF name # networkContainerName
                   THEN OpLxcfs({}, name, "start") ELSE {}
    IN IF name # networkContainerName /\ fail = "lxcfs"
       THEN [cs |-> cs, id |-> NoID, lxcfs |-> {}]
       ELSE IF fail = "create" \/ Len(cs) >= MaxContainers
       THEN [cs |-> cs, id |-> NoID, lxcfs |-> started]
       ELSE IF fail = "start" \/ ~canStart
       THEN [cs |-> Append(cs, NewContainer(pod.UID, name, FALSE, peer)), id |-> NoID,
             lxcfs |-> started]
       ELSE IF fail = "setup" /\ name # networkContainerName
       THEN [cs |-> Append(cs, NewContainer(pod.UID, name, TRUE, peer)), id |-> NoID,
             lxcfs |-> started]
       ELSE [cs |-> Append(cs, NewContainer(pod.UID, name, TRUE, peer)),
             id |-> Len(cs) + 1, lxcfs |-> started]

\* createNetworkContainer
createNetworkContainer(cs, pod, fail) ==
    runContainer(cs, pod, networkContainerName, NoID,
                 IF fail = "netCreate" THEN "create"
                 ELSE IF fail = "netStart" THEN "start" ELSE "none")

\* a restart policy check that lets every container be created again
RestartSkipsNothing(cs, pod, recent) == FALSE

\* the check of RestartPolicy in the loop over pod.Spec.Containers: is the
\* container left as it is?  recent are the containers of its name that are
\* not running, the runtime lists the newest first
RestartSkips(cs, pod, recent) ==
    /\ recent # {}
    /\ pod.RestartPolicy # "Always"
    /\ \/ pod.RestartPolicy = "Never"
       \/ /\ pod.RestartPolicy = "OnFailure"
          /\ cs[Max(recent)].exitCode = 0

\* a mountExternalVolumes that reports no error
mountExternalVolumesNoError(pod, fail) == TRUE

\* mountExternalVolumes: does it return without an error?  It fails when
\* CreateVolumeBuilder or SetUp fails for one of the pod's volumes
mountExternalVolumes(pod, fail) == fail # "mount"

\* the result of a syncPod run that returns before it changes anything
Returned(cs) == [cs |-> cs, lxcfs |-> {}]

\* syncPod from mountExternalVolumes on: the loop over pod.Spec.Containers
\* and the loop that kills the containers of the listing it does not keep
syncPodContainers(cs, pod, listing, netID, fail, pick) ==
    IF ~mountExternalVolumes(pod, fail) THEN Returned(cs)
    ELSE LET found == FindPodContainer(cs, listing, pod.UID, appContainerName)
             recent == IF fail = "recentApp" THEN {}
                       ELSE GetRecentDockerContainersWithNameAndUUID(
                                cs, pod.UID, appContainerName)
             skip == RestartSkips(cs, pod, recent)
             ran == IF found # {} \/ skip
                    THEN [cs |-> cs, id |-> NoID, lxcfs |-> {}]
                    ELSE runContainer(cs, pod, appContainerName, netID, fail)
             containersToKeep ==
                 {netID} \cup (IF found # {} THEN {Pick(found, pick)}
                               ELSE IF skip THEN {} ELSE {ran.id})
             unwanted == {i \in listing : cs[i].uuid = pod.UID /\ i \notin containersToKeep}
         IN [cs |-> IF fail = "kill" THEN ran.cs ELSE StopAll(ran.cs, unwanted),
             lxcfs |-> ran.lxcfs]

\* Kubelet.syncPodHostNetwork.  The listed container is kept when its hash
\* is unchanged and it is healthy or the health check errs; fail =
\* "unhealthy" is the other case, in which it is killed and the loop goes on
\* to the restart policy.
syncPodHostNetwork(cs, pod, listing, fail, pick) ==
    IF ~mountExternalVolumes(pod, fail) THEN Returned(cs)
    ELSE LET found == FindPodContainer(cs, listing, pod.UID, appContainerName)
             unhealthy == found # {} /\ fail = "unhealthy"
             killedContainers == IF unhealthy THEN {Pick(found, pick)} ELSE {}
             killed == StopAll(cs, killedContainers)
             kept == IF found # {} /\ ~unhealthy THEN {Pick(found, pick)} ELSE {}
             recent == IF fail = "recentApp" THEN {}
                       ELSE GetRecentDockerContainersWithNameAndUUID(
                                killed, pod.UID, appContainerName)
             skip == RestartSkips(killed, pod, recent)
             ran == IF kept # {} \/ skip
                    THEN [cs |-> killed, id |-> NoID, lxcfs |-> {}]
                    ELSE runContainer(killed, pod, appContainerName, HostNetwork, fail)
             containersToKeep == kept \cup (IF ran.id # NoID THEN {ran.id} ELSE {})
             unwanted == {i \in listing : /\ cs[i].uuid = pod.UID
                                          /\ i \notin containersToKeep
                                          /\ i \notin killedContainers}
         IN [cs |-> IF fail = "kill" THEN ran.cs ELSE StopAll(ran.cs, unwanted),
             lxcfs |-> ran.lxcfs]

\* Kubelet.syncPod: the containers afterwards and the identifiers lxcfs was
\* started with
syncPodRun(cs, pod, listing, fail, pick) ==
    LET nets == FindPodContainer(cs, listing, pod.UID, networkContainerName)
    IN IF pod.Mode = PodNetworkModeHost
       THEN syncPodHostNetwork(cs, pod, listing, fail, pick)
       ELSE IF nets # {}
       THEN syncPodContainers(cs, pod, listing, Pick(nets, pick), fail, pick)
       ELSE IF fail = "recent" THEN Returned(cs)
       ELSE IF GetRecentDockerContainersWithNameAndUUID(cs, pod.UID, networkContainerName) # {}
       THEN syncPodContainers(cs, pod, listing, NoID, fail, pick)
       ELSE \* killContainersInPod
            LET found == FindPodContainer(cs, listing, pod.UID, appContainerName)
                count == IF found = {} THEN 0 ELSE 1
            IN IF found # {} /\ fail = "kill" THEN Returned(cs)
               ELSE LET killed == IF found = {} THEN cs
                                  ELSE StopContainer(cs, Pick(found, pick))
                        net == createNetworkContainer(killed, pod, fail)
                        \* setupNetwork has wired the new net container
                        wired == IF pod.Address # ""
                                 THEN [net.cs EXCEPT ![net.id].setup = TRUE]
                                 ELSE net.cs
                    IN IF net.id = NoID THEN Returned(net.cs)
                       ELSE IF count > 0 /\ fail = "relist" THEN Returned(net.cs)
                       ELSE IF pod.Address # "" /\ fail = "setupNetwork"
                       THEN Returned(net.cs)
                       ELSE syncPodContainers(
                                wired, pod,
                                IF count > 0 THEN RunningIds(wired) ELSE listing,
                                net.id, fail, pick)

\* the containers a syncPod run leaves
syncPod(cs, pod, listing, fail, pick) == syncPodRun(cs, pod, listing, fail, pick).cs

\* the calls of a syncPod run one of which can fail
SyncFailures ==
    {"none", "recent", "kill", "netCreate", "netStart", "relist", "setupNetwork",
     "mount", "recentApp", "lxcfs", "create", "start", "setup", "unhealthy"}

NoGC == [ran |-> FALSE, err |-> FALSE, removed |-> {},
         left |-> [u \in KubePods |-> 0], eligibleLeft |-> [u \in KubePods |-> 0]]

\* no SyncPods call has just returned
NoSync == [ran |-> FALSE, listed |-> {}, killCalls |-> {}, killErrs |-> {},
           started |-> {}, lxcfsStops |-> {}, macResets |-> {}]

\* the pod of kl.pods with a uuid: the pods of an update have one restart
\* policy and one Network.Address setting, and are host-network pods or not
KubePod(uuid) ==
    [BoundPod(uuid, klPods.RestartPolicy) EXCEPT
        !.Mode = IF klPods.Mode = PodNetworkModeHost THEN PodNetworkModeHost ELSE @,
        !.Address = klPods.Address]

\* setDestroyedPod
setDestroyedPod(destroyed, uuid) == destroyed \cup {uuid}

\* a clearDestroyedPod that leaves the entry in the map
clearDestroyedPodKeeps(destroyed, uuid) == destroyed

\* clearDestroyedPod
clearDestroyedPod(destroyed, uuid) == destroyed \ {uuid}

\* cleanPodRelatedInfo for the desired uuids: the entries left in
\* kl.podDestroyed, the pods OpLxcfs(pod.Name, "stop") and
\* setupVFMacAddress were called for, and the lxcfs instances left
cleanPodRelatedInfo(destroyed, desiredPods, running) ==
    LET orphans == {u \in destroyed : u \notin desiredPods}
    IN [podDestroyed |-> {u \in destroyed :
                             \A o \in orphans : u \in clearDestroyedPod(destroyed, o)},
        lxcfsStops |-> orphans,
        macResets |-> {u \in orphans : KubePod(u).Mode = sriovMode},
        lxcfs |-> {id \in running :
                      \A u \in orphans : id \in OpLxcfs(running, KubePod(u).Name, "stop")}]

\* the node agent before its first update; its garbage collector is off
KubeInit ==
    /\ containers = << >>
    /\ klPods \in {[nil |-> TRUE, uuids |-> {}, RestartPolicy |-> RestartPolicies[n],
                     Mode |-> mode, Address |-> ""] :
                       n \in 1..Len(RestartPolicies),
                       mode \in {PodNetworkModeBridge, PodNetworkModeHost}}
    /\ podDestroyed = {}
    /\ lxcfs = {}
    /\ syncPc = "idle"
    /\ snapshot = {}
    /\ workerSnap = [p \in KubePods |-> {}]
    /\ minimumGCAge = 0
    /\ maxContainerCount = 0
    /\ lastGC = NoGC
    /\ lastSync = NoSync

\* the node agent before its first update, for bridge pods with a
\* Network.Address, which syncPod has to wire with setupNetwork
NetworkInit ==
    /\ containers = << >>
    /\ klPods = [nil |-> TRUE, uuids |-> {}, RestartPolicy |-> "Always",
                 Mode |-> PodNetworkModeBridge, Address |-> "10.0.0.2"]
    /\ podDestroyed = {}
    /\ lxcfs = {}
    /\ syncPc = "idle"
    /\ snapshot = {}
    /\ workerSnap = [p \in KubePods |-> {}]
    /\ minimumGCAge = 0
    /\ maxContainerCount = 0
    /\ lastGC = NoGC
    /\ lastSync = NoSync

\* syncLoop receives a SET update; SyncPods starts and lists the containers
SyncLoopUpdate ==
    /\ syncPc = "idle"
    /\ \E u \in SUBSET DOMAIN workerSnap :
           klPods' = [klPods EXCEPT !.nil = FALSE, !.uuids = u]
    /\ snapshot' = RunningIds(containers)
    /\ syncPc' = "listed"
    /\ UNCHANGED <<containers, workers, workerSnap, minimumGCAge, maxContainerCount, lastGC>>
    /\ lastSync' = NoSync
    /\ UNCHANGED <<podDestroyed, lxcfs>>
    /\ UNCHANGED nonKubeVars

\* syncLoop's resync timer fires; SyncPods starts and lists the containers
SyncLoopPeriodic ==
    /\ syncPc = "idle"
    /\ ~klPods.nil
    /\ snapshot' = RunningIds(containers)
    /\ syncPc' = "listed"
    /\ UNCHANGED <<containers, klPods, workers, workerSnap, minimumGCAge,
                   maxContainerCount, lastGC>>
    /\ lastSync' = NoSync
    /\ UNCHANGED <<podDestroyed, lxcfs>>
    /\ UNCHANGED nonKubeVars

\* the second loop of SyncPods with no test of desiredPods: every listed
\* container is taken for an unwanted one
UnwantedAnyPod(cs, listing, desiredPods) == listing

\* the second loop of SyncPods killing net containers only
UnwantedNetOnly(cs, listing, desiredPods) ==
    {i \in listing : cs[i].uuid \notin desiredPods /\ cs[i].name = networkContainerName}

\* the containers the second loop of SyncPods calls killContainer on: a
\* listed container of a desired pod is skipped, and the key of any other
\* one is not in desiredContainers, whose keys all carry a desired uuid
Unwanted(cs, listing, desiredPods) ==
    {i \in listing : cs[i].uuid \notin desiredPods}

\* SyncPods after the listing: hands every pod to podWorkers.Run with the
\* listing, then kills the listed containers of pods that are not desired;
\* a killContainer call that fails is logged and the loop goes on
SyncPodsDispatch ==
    /\ syncPc = "listed"
    /\ LET started == {p \in klPods.uuids : RunStarts(workers, p)}
           unwanted == Unwanted(containers, snapshot, klPods.uuids)
           recorded == UNION ({podDestroyed} \cup
                              {setDestroyedPod(podDestroyed, u) : u \in klPods.uuids})
           clean == cleanPodRelatedInfo(recorded, klPods.uuids, lxcfs)
       IN /\ workers' = workers \cup started
          /\ workerSnap' = [p \in DOMAIN workerSnap |->
                               IF p \in started THEN snapshot ELSE workerSnap[p]]
          /\ podDestroyed' = clean.podDestroyed
          /\ lxcfs' = clean.lxcfs
          /\ \E killed \in SUBSET unwanted :
                 /\ containers' = StopAll(containers, killed)
                 /\ lastSync' = [ran |-> TRUE, listed |-> snapshot,
                                 killCalls |-> unwanted,
                                 killErrs |-> unwanted \ killed,
                                 started |-> started,
                                 lxcfsStops |-> clean.lxcfsStops,
                                 macResets |-> clean.macResets]
    /\ syncPc' = "idle"
    /\ snapshot' = {}
    /\ UNCHANGED <<klPods, minimumGCAge, maxContainerCount, lastGC>>
    /\ UNCHANGED nonKubeVars

\* the goroutine podWorkers.Run started: syncPod, then the entry's removal
SyncPodWorker(p) ==
    /\ p \in workers
    /\ \E fail \in SyncFailures, pick \in {"lo", "hi"} :
           LET run == syncPodRun(containers, KubePod(p), workerSnap[p], fail, pick)
           IN /\ containers' = run.cs
              /\ lxcfs' = lxcfs \cup run.lxcfs
    /\ workers' = workers \ {p}
    /\ workerSnap' = [workerSnap EXCEPT ![p] = {}]
    /\ UNCHANGED <<klPods, syncPc, snapshot, minimumGCAge, maxContainerCount, lastGC>>
    /\ lastSync' = NoSync
    /\ UNCHANGED podDestroyed
    /\ UNCHANGED nonKubeVars

\* a running container exits by itself
ContainerExit(i) ==
    /\ i \in RunningIds(containers)
    /\ \E code \in {0, 1} :
           containers' = [containers EXCEPT ![i].running = FALSE, ![i].exitCode = code]
    /\ UNCHANGED <<klPods, syncPc, snapshot, workers, workerSnap, minimumGCAge,
                   maxContainerCount, lastGC>>
    /\ lastSync' = NoSync
    /\ UNCHANGED <<podDestroyed, lxcfs>>
    /\ UNCHANGED nonKubeVars

\* descending order of Created: ids are given in creation order
RECURSIVE ByCreated(_)
ByCreated(S) == IF S = {} THEN << >> ELSE <<Max(S)>> \o ByCreated(S \ {Max(S)})

\* the net containers the runtime lists under the key uuid.net
NetGroup(cs, uuid) ==
    {i \in AllIds(cs) : cs[i].name = networkContainerName /\ cs[i].uuid = uuid}

\* the filter of purgeOldest without the test of State.Running
EligibleAnyState(cs, ids, minAge) ==
    {i \in ids : minAge = 0 \/ cs[i].old}

\* the containers purgeOldest considers: not running, and finished longer
\* ago than minimumGCAge if that is set
Eligible(cs, ids, minAge) ==
    {i \in ids : ~cs[i].running /\ (minAge = 0 \/ cs[i].old)}

\* purgeOldest that removes nothing
purgeOldestKeepsAll(cs, ids, minAge, maxCount) == << >>

\* purgeOldest: the containers it removes, in the order of their removal
purgeOldest(cs, ids, minAge, maxCount) ==
    LET dockerData == ByCreated(Eligible(cs, ids, minAge))
    IN IF Len(dockerData) <= maxCount THEN << >>
       ELSE SubSeq(dockerData, maxCount + 1, Len(dockerData))

\* RemoveContainer on every container of a set
RemoveAll(cs, ids) ==
    [i \in 1..Len(cs) |-> IF i \in ids THEN [cs[i] EXCEPT !.removed = TRUE] ELSE cs[i]]

\* what GarbageCollectContainers removes from the group of a uuid
GroupPurge(cs, uuid, minAge, maxCount) ==
    IF Cardinality(NetGroup(cs, uuid)) <= maxCount THEN << >>
    ELSE purgeOldest(cs, NetGroup(cs, uuid), minAge, maxCount)

\* the record of a call that removed the set ids
GCRecord(cs, err, ids) ==
    [ran |-> TRUE, err |-> err, removed |-> ids,
     left |-> [u \in KubePods |-> Cardinality(NetGroup(cs, u))],
     eligibleLeft |-> [u \in KubePods |->
                          Cardinality(Eligible(cs, NetGroup(cs, u), minimumGCAge))]]

\* the runtime as the garbage collector meets it, with the collector's
\* settings; the sync loop is not looked at
GCInit ==
    /\ containers = << >>
    /\ klPods = [nil |-> TRUE, uuids |-> {}, RestartPolicy |-> "Always",
                 Mode |-> PodNetworkModeBridge, Address |-> ""]
    /\ podDestroyed = {}
    /\ lxcfs = {}
    /\ syncPc = "off"
    /\ snapshot = {}
    /\ workerSnap = [p \in KubePods |-> {}]
    /\ minimumGCAge \in {0, 1}
    /\ maxContainerCount \in 0..MaxGCCount
    /\ lastGC = NoGC
    /\ lastSync = NoSync

\* the node agent runs a container of a pod (runContainer), an
\* application container in the namespace of the pod's newest running net
\* container
RunContainer(uuid, name) ==
    /\ Len(containers) < MaxGCContainers
    /\ LET nets == NetGroup(containers, uuid) \cap RunningIds(containers)
           netID == IF nets = {} THEN NoID ELSE Max(nets)
       IN \E fail \in {"none", "start"} :
              LET run == runContainer(containers, BoundPod(uuid, "Always"), name,
                                      netID, fail)
              IN /\ containers' = run.cs
                 /\ lxcfs' = lxcfs \cup run.lxcfs
    /\ lastGC' = NoGC
    /\ UNCHANGED <<klPods, syncPc, snapshot, workers, workerSnap, minimumGCAge,
                   maxContainerCount>>
    /\ lastSync' = NoSync
    /\ UNCHANGED podDestroyed
    /\ UNCHANGED nonKubeVars

\* the node agent kills a running container (killContainerByID)
KillContainer(i) ==
    /\ i \in RunningIds(containers)
    /\ containers' = StopAll(containers, {i})
    /\ lastGC' = NoGC
    /\ UNCHANGED <<klPods, syncPc, snapshot, workers, workerSnap, minimumGCAge,
                   maxContainerCount>>
    /\ lastSync' = NoSync
    /\ UNCHANGED <<podDestroyed, lxcfs>>
    /\ UNCHANGED nonKubeVars

\* more than minimumGCAge passes: the containers that have exited are old
TimePasses ==
    /\ \E i \in AllIds(containers) : ~containers[i].running /\ ~containers[i].old
    /\ containers' = [i \in 1..Len(containers) |->
                         IF ~containers[i].running /\ ~containers[i].removed
                         THEN [containers[i] EXCEPT !.old = TRUE]
                         ELSE containers[i]]
    /\ lastGC' = NoGC
    /\ UNCHANGED <<klPods, syncPc, snapshot, workers, workerSnap, minimumGCAge,
                   maxContainerCount>>
    /\ lastSync' = NoSync
    /\ UNCHANGED <<podDestroyed, lxcfs>>
    /\ UNCHANGED nonKubeVars

\* GarbageCollectContainers with no failing call
GarbageCollectContainers ==
    /\ LET ids == IF maxContainerCount = 0 THEN {}
                  ELSE UNION {Range(GroupPurge(containers, u, minimumGCAge,
                                               maxContainerCount)) : u \in KubePods}
       IN /\ containers' = RemoveAll(containers, ids)
          /\ lastGC' = GCRecord(containers', FALSE, ids)
    /\ UNCHANGED <<klPods, syncPc, snapshot, workers, workerSnap, minimumGCAge,
                   maxContainerCount>>
    /\ lastSync' = NoSync
    /\ UNCHANGED <<podDestroyed, lxcfs>>
    /\ UNCHANGED nonKubeVars

\* GarbageCollectContainers returning an error: the listing fails, or,
\* after the groups in done, InspectContainer or RemoveContainer fails in
\* the group of u after k removals
GarbageCollectFails ==
    /\ maxContainerCount # 0
    /\ \/ /\ containers' = containers
          /\ lastGC' = GCRecord(containers', TRUE, {})
       \/ \E u \in KubePods, done \in SUBSET KubePods :
              /\ u \notin done
              /\ Cardinality(NetGroup(containers, u)) > maxContainerCount
              /\ LET purge == GroupPurge(containers, u, minimumGCAge, maxContainerCount)
                 IN \E k \in 0..Len(purge) :
                        /\ k = 0 \/ k < Len(purge)
                        /\ LET ids == Range(SubSeq(purge, 1, k)) \cup
                                      UNION {Range(GroupPurge(containers, d, minimumGCAge,
                                                              maxContainerCount)) : d \in done}
                           IN /\ containers' = RemoveAll(containers, ids)
                              /\ lastGC' = GCRecord(containers', TRUE, ids)
    /\ UNCHANGED <<klPods, syncPc, snapshot, workers, workerSnap, minimumGCAge,
                   maxContainerCount>>
    /\ lastSync' = NoSync
    /\ UNCHANGED <<podDestroyed, lxcfs>>
    /\ UNCHANGED nonKubeVars

KubeNext ==
    \/ SyncLoopUpdate
    \/ SyncLoopPeriodic
    \/ SyncPodsDispatch
    \/ \E p \in KubePods : SyncPodWorker(p)
    \/ \E i \in 1..MaxContainers : ContainerExit(i)

\* the runtime after runContainer calls for the given <<uuid, name>> pairs,
\* an application container in the namespace of its pod's newest running
\* net container
RECURSIVE RuntimeAfter(_)
RuntimeAfter(reqs) ==
    IF reqs = << >> THEN << >>
    ELSE LET cs == RuntimeAfter(SubSeq(reqs, 1, Len(reqs) - 1))
             uuid == reqs[Len(reqs)][1]
             name == reqs[Len(reqs)][2]
             nets == NetGroup(cs, uuid) \cap RunningIds(cs)
             netID == IF nets = {} THEN NoID ELSE Max(nets)
         IN runContainer(cs, BoundPod(uuid, "Always"), name, netID, "none").cs

\* the runtimes a starting node agent finds: the containers earlier runs
\* of it left behind
SyncRuntimes ==
    {RuntimeAfter(reqs) :
        reqs \in UNION {[1..n -> SyncPodIds \X {networkContainerName, appContainerName}] :
                            n \in 0..MaxSyncContainers}}

\* a node agent that starts on such a runtime, before its first update
SyncPodsInit ==
    /\ containers \in SyncRuntimes
    /\ klPods = [nil |-> TRUE, uuids |-> {}, RestartPolicy |-> "Always",
                 Mode |-> PodNetworkModeBridge, Address |-> ""]
    /\ podDestroyed = {}
    /\ lxcfs = {}
    /\ syncPc = "idle"
    /\ snapshot = {}
    /\ workerSnap = [p \in SyncPodIds |-> {}]
    /\ minimumGCAge = 0
    /\ maxContainerCount = 0
    /\ lastGC = NoGC
    /\ lastSync = NoSync

\* the goroutine podWorkers.Run started returns from syncPod and deletes
\* its entry
PodWorkerEnds(p) ==
    /\ p \in workers
    /\ workers' = workers \ {p}
    /\ workerSnap' = [workerSnap EXCEPT ![p] = {}]
    /\ UNCHANGED <<containers, klPods, syncPc, snapshot, minimumGCAge,
                   maxContainerCount, lastGC>>
    /\ lastSync' = NoSync
    /\ UNCHANGED <<podDestroyed, lxcfs>>
    /\ UNCHANGED nonKubeVars

\* SyncPods call after call; what syncPod does in a worker is followed in
\* KubeNext and left out here
SyncPodsNext ==
    \/ SyncLoopUpdate
    \/ SyncLoopPeriodic
    \/ SyncPodsDispatch
    \/ \E p \in SyncPodIds : PodWorkerEnds(p)

GCNext ==
    \/ \E u \in KubePods, name \in {networkContainerName, appContainerName} :
           RunContainer(u, name)
    \/ \E i \in 1..MaxGCContainers : KillContainer(i)
    \/ TimePasses
    \/ GarbageCollectContainers
    \/ GarbageCollectFails

\* the running containers that carry the uuid of a pod
RunningOf(cs, uuid) == {i \in RunningIds(cs) : cs[i].uuid = uuid}

\* C40: if from some point on a pod is not in the desired set and every
\* killContainer call of SyncPods succeeds, then from some point on no
\* container carrying the pod's uuid is running, whatever a worker of the
\* pod that was in flight at the withdrawal created after it
C40_WithdrawnPodStops ==
    \A p \in KubePods :
        <>[](~klPods.nil /\ p \notin klPods.uuids /\ lastSync.killErrs = {})
            => <>[](RunningOf(containers, p) = {})

\* SyncPods has just run for a desired set without the pod and has killed
\* a listed container of it, while a worker of the pod, started by an
\* earlier call with an earlier listing, has not yet run syncPod
C40_Witness ==
    \E p \in KubePods :
        /\ ~klPods.nil /\ p \notin klPods.uuids
        /\ lastSync.ran /\ lastSync.killErrs = {}
        /\ p \in workers /\ workerSnap[p] # {}
        /\ \E i \in lastSync.killCalls : containers[i].uuid = p
        /\ RunningOf(containers, p) = {}

\* the application containers of bound pods that are running
\* C11: a SyncPods call whose listing succeeded calls killContainer on
\* every listed container whose uuid is not the uuid of a desired pod, and
\* the calls that do not fail stop their container; it changes no container
\* of a desired pod, creates none, and every desired pod has a worker in
\* flight when it returns.
C11_SyncPodsKillsUndesired ==
    [][(syncPc = "listed" /\ syncPc' = "idle") =>
          /\ lastSync'.ran
          /\ lastSync'.killCalls =
                 {i \in snapshot : containers[i].uuid \notin klPods.uuids}
          /\ \A i \in lastSync'.killCalls \ lastSync'.killErrs :
                 ~containers'[i].running
          /\ Len(containers') = Len(containers)
          /\ \A i \in 1..Len(containers) :
                 containers[i].uuid \in klPods.uuids => containers'[i] = containers[i]
          /\ klPods.uuids \subseteq workers']_vars

\* {A,B} to {A,C}: SyncPods has just killed a running container of a pod that
\* is no longer desired, left a listed container of a desired pod running,
\* and started the worker of a desired pod that has no container
C11_Witness ==
    /\ lastSync.ran
    /\ \E b \in lastSync.killCalls \ lastSync.killErrs : ~containers[b].running
    /\ \E a \in lastSync.listed :
           containers[a].uuid \in klPods.uuids /\ containers[a].running
    /\ \E c \in lastSync.started :
           \A i \in 1..Len(containers) : containers[i].uuid # c

AppsOf(cs, uuid) ==
    {i \in 1..Len(cs) : cs[i].uuid = uuid /\ cs[i].name = appContainerName}

\* C34: a syncPod run in which mounting the pod's volumes fails
\* creates no application container of the pod and leaves every one the
\* runtime holds as it is (none is started, none is killed), in the
\* sandbox variant and in the host-network variant.
C34_MountFailureTouchesNoApp ==
    \A p \in workers : \A pick \in {"lo", "hi"} :
        LET after == syncPod(containers, KubePod(p), workerSnap[p], "mount", pick)
        IN /\ AppsOf(after, p) = AppsOf(containers, p)
           /\ \A i \in AppsOf(containers, p) : after[i] = containers[i]

\* a worker is about to run syncPod for a pod whose application container
\* runs and is listed, in a sandbox whose net container runs and is listed
C34_Witness ==
    \E p \in workers :
        /\ \E i \in workerSnap[p] : /\ containers[i].uuid = p
                                    /\ containers[i].name = appContainerName
                                    /\ containers[i].running
        /\ \E n \in workerSnap[p] : /\ containers[n].uuid = p
                                    /\ containers[n].name = networkContainerName
                                    /\ containers[n].running

\* C33: for pods with a Network.Address, every running application
\* container is in the network namespace of a net container that
\* setupNetwork has wired: after a setupNetwork failure a later syncPod
\* wires the net container before it starts an application container on it.
C33_AppOnlyOnWiredNet ==
    \A i \in RunningIds(containers) :
        (containers[i].name = appContainerName /\ klPods.Address # "") =>
            /\ containers[i].peer # NoID
            /\ containers[containers[i].peer].setup

\* C35: between SyncPods calls the keys of kl.podDestroyed are the uuids
\* of the desired pods of the last call, and a SyncPods call ends with the
\* keys being the uuids of its desired pods; it stops lxcfs for exactly the
\* pods that were desired at the call before and are not desired now, and
\* resets the VF MAC for those of them whose mode is sriov; a pod it has
\* torn down is no key afterwards, so that no later call tears it down
\* again.
C35_DestroyedIsDesired ==
    /\ [](syncPc = "idle" => podDestroyed = klPods.uuids)
    /\ [][(syncPc = "listed" /\ syncPc' = "idle") =>
             /\ podDestroyed' = klPods.uuids
             /\ lastSync'.lxcfsStops = podDestroyed \ klPods.uuids
             /\ lastSync'.macResets =
                    {u \in podDestroyed \ klPods.uuids : BoundPod(u, "Always").Mode = sriovMode}
             /\ lastSync'.lxcfsStops \cap podDestroyed' = {}]_vars

\* a SyncPods call has just torn down two withdrawn pods, one of them a
\* sriov pod, and kept a third that is still desired
C35_Witness ==
    /\ lastSync.ran
    /\ \E u \in lastSync.lxcfsStops : u \notin lastSync.macResets
    /\ lastSync.macResets # {}
    /\ podDestroyed # {}

\* C36: when a SyncPods call has torn down withdrawn pods and no pod is
\* desired any more, no lxcfs instance is left running: every identifier
\* runContainer started lxcfs with for a container of a withdrawn pod has
\* been stopped by cleanPodRelatedInfo.
C36_TeardownStopsLxcfs ==
    (lastSync.ran /\ lastSync.lxcfsStops # {} /\ klPods.uuids = {}) => lxcfs = {}

\* C31: in every syncPod run, every application container the run creates
\* is created for the network namespace of a net container of its pod: the
\* net id handed to runContainer is not the empty id and is the id of a
\* net container of the same uuid.  Stated of the syncPod run of every
\* worker in flight, for every call that can fail.
C31_AppOnlyOnIdentifiedNet ==
    \A p \in workers : \A fail \in SyncFailures, pick \in {"lo", "hi"} :
        LET after == syncPod(containers, KubePod(p), workerSnap[p], fail, pick)
        IN KubePod(p).Mode # PodNetworkModeHost => \A i \in (Len(containers) + 1)..Len(after) :
               after[i].name = appContainerName =>
                   /\ after[i].peer # NoID
                   /\ after[after[i].peer].name = networkContainerName
                   /\ after[after[i].peer].uuid = p

RunningApps ==
    {i \in RunningIds(containers) :
        /\ containers[i].name # networkContainerName
        /\ containers[i].uuid \in klPods.uuids
        /\ klPods.Mode # PodNetworkModeHost}

\* C6: whenever an application container of a bound pod runs, exactly one
\* net container of its pod runs and the application container is in its
\* network namespace.
C6_SandboxInvariant ==
    \A i \in RunningApps :
        LET nets == NetGroup(containers, containers[i].uuid) \cap RunningIds(containers)
        IN nets = {containers[i].peer}

\* C8 as stated: when GarbageCollectContainers has returned without error
\* with maxContainerCount > 0, every uuid has at most maxContainerCount net
\* containers left.
C8_AtMostMaxNetLeft ==
    (lastGC.ran /\ ~lastGC.err /\ maxContainerCount > 0) =>
        \A u \in KubePods : lastGC.left[u] <= maxContainerCount

\* C8: when GarbageCollectContainers has returned without error with
\* maxContainerCount > 0, every uuid has at most maxContainerCount net
\* containers left that are not running and finished longer ago than
\* minimumGCAge.
C8_AtMostMaxEligibleLeft ==
    (lastGC.ran /\ ~lastGC.err /\ maxContainerCount > 0) =>
        \A u \in KubePods : lastGC.eligibleLeft[u] <= maxContainerCount

\* a call that removed a container and left more than maxContainerCount
C8_Witness ==
    /\ lastGC.ran /\ ~lastGC.err /\ maxContainerCount > 0
    /\ \E u \in KubePods :
           /\ lastGC.left[u] > maxContainerCount
           /\ \E i \in lastGC.removed : containers[i].uuid = u

\* C9: every step that removes a container removes a net container that is
\* not running and (when minimumGCAge > 0) is old, and maxContainerCount
\* newer eligible containers of its group exist at that step.
C9_RemovesOnlyOldEligible ==
    [][\A i \in 1..Len(containers) :
           (containers'[i].removed /\ ~containers[i].removed) =>
               /\ containers[i].name = networkContainerName
               /\ ~containers[i].running
               /\ minimumGCAge = 0 \/ containers[i].old
               /\ Cardinality({j \in Eligible(containers,
                                              NetGroup(containers, containers[i].uuid),
                                              minimumGCAge) : j > i})
                      >= maxContainerCount]_vars

\* a call removed a container of a group, kept a newer eligible one and
\* left a running net container of the group alone
C9_Witness ==
    /\ lastGC.ran
    /\ \E i \in lastGC.removed :
           LET group == NetGroup(containers, containers[i].uuid)
           IN /\ \E j \in Eligible(containers, group, minimumGCAge) : j > i
              /\ group \cap RunningIds(containers) # {}

(***************************************************************************)
(* PodCache: UpdateAllContainers and its probes, and REST Get and List.    *)
(***************************************************************************)
NumCachePods == 2
NumCacheNodes == 1
MaxDeclared == 2

CachePods == 1..NumCachePods

CacheNodes == 1..NumCacheNodes

\* the empty Status.Host
NoHost == 0

\* no entry in p.podStatus; no pod in the list of a sweep
NoStatus == [Host |-> NoHost, Phase |-> "none"]

\* a nil PodInfo.  A PodInfo that is not nil gives, for each of the declared
\* containers, "running" (State.Running set), "terminated"
\* (State.Termination set), "waiting" (neither) or "missing" (no entry), and
\* says whether it has an entry "net" and whether that carries a PodIP
NilInfo == [nil |-> TRUE, st |-> << >>, net |-> "none"]

ContainerStates == {"running", "terminated", "waiting", "missing"}

\* what GetPodInfo can return for a pod of n declared containers
PodInfos(n) ==
    {NilInfo}
    \cup {[nil |-> FALSE, st |-> st, net |-> "none"] : st \in [1..n -> ContainerStates]}
    \cup {[nil |-> FALSE, st |-> [i \in 1..n |-> "running"], net |-> net] :
             net \in {"empty", "ip"}}

\* the Status of a pod in the registry: created Pending and unassigned,
\* then bound to a host by a Binding or set Failed by the scheduler
RegistryStatus(host, phase) ==
    [Host |-> host, Phase |-> phase, Info |-> NilInfo, PodIP |-> "", HostIP |-> NoHost]

\* getPhase that takes any running container for a running pod
getPhaseAnyRunning(n, info) ==
    IF info.nil THEN PodPending
    ELSE IF \E i \in 1..n : info.st[i] = "running" THEN PodRunning
    ELSE PodPending

\* getPhase(spec, info) for a spec of n containers
getPhase(n, info) ==
    IF info.nil THEN PodPending
    ELSE LET running == Cardinality({i \in 1..n : info.st[i] = "running"})
             stopped == Cardinality({i \in 1..n : info.st[i] = "terminated"})
             unknown == Cardinality({i \in 1..n : info.st[i] \in {"waiting", "missing"}})
         IN IF running > 0 /\ unknown = 0 THEN PodRunning
            ELSE IF running = 0 /\ stopped > 0 /\ unknown = 0 THEN PodFailed
            ELSE PodPending

\* what GetPodInfo returns: an error, or a PodInfo
PodInfoResults(n) ==
    {[err |-> TRUE, info |-> NilInfo]} \cup {[err |-> FALSE, info |-> i] : i \in PodInfos(n)}

\* computePodStatus for a pod with a host, given the answer of nodeExists
\* ("yes" or "no") and what GetPodInfo returns
computePodStatus(status, n, exists, res) ==
    IF exists = "no" THEN [status EXCEPT !.Phase = PodFailed]
    ELSE IF res.err
    THEN [status EXCEPT !.HostIP = status.Host, !.Phase = PodFailed]
    ELSE [status EXCEPT !.HostIP = status.Host,
                        !.Info = res.info,
                        !.Phase = getPhase(n, res.info),
                        !.PodIP = IF res.info.net = "ip" THEN "ip" ELSE @]

\* resetNodeExistenceCache that keeps the entries
resetNodeExistenceCacheKept(cn) == cn

\* resetNodeExistenceCache
resetNodeExistenceCache(cn) == [n \in CacheNodes |-> "miss"]

\* REST Get and List that return the status of the cache as it is
RestStatusOfCache(reg, cached) ==
    IF cached = NoStatus THEN [Host |-> reg.Host, Phase |-> PodPending] ELSE cached

\* the Status REST Get and List put into a pod: the one of the cache, or
\* one that only has Phase Pending, and in both the Host of the registry
RestStatus(reg, cached) ==
    IF cached = NoStatus
    THEN [Host |-> reg.Host, Phase |-> PodPending]
    ELSE [cached EXCEPT !.Host = reg.Host]

NoREST == [op |-> "none", pods |-> {}, status |-> << >>]

\* the master after NewPodCache, with nodes registered and pods of the
\* given numbers of containers created
CacheInitWith(ds) ==
    /\ nodeSet \in SUBSET CacheNodes
    /\ registry = [p \in CachePods |-> RegistryStatus(NoHost, PodPending)]
    /\ declared \in ds
    /\ podStatus = [p \in CachePods |-> NoStatus]
    /\ currentNodes = [n \in CacheNodes |-> "miss"]
    /\ sweepPc = "idle"
    /\ sweepPods = [p \in CachePods |-> NoStatus]
    /\ probePc = [p \in CachePods |-> "none"]
    /\ probeExists = [p \in CachePods |-> "no"]
    /\ absentAll = {}
    /\ prevNodes = {}
    /\ lastREST = NoREST

CacheInit == CacheInitWith([CachePods -> 0..MaxDeclared])

\* the same with pods of one container each
RestInit == CacheInitWith([CachePods -> {1}])

\* a node registers with the master
NodeJoins(n) ==
    /\ n \notin nodeSet
    /\ nodeSet' = nodeSet \cup {n}
    /\ absentAll' = IF sweepPc = "probing" THEN absentAll \ {n} ELSE absentAll
    /\ lastREST' = NoREST
    /\ UNCHANGED <<registry, declared, podStatus, currentNodes, sweepPc, sweepPods,
                   probePc, probeExists, prevNodes>>
    /\ UNCHANGED nonCacheVars

\* a node disappears from the node lookup
NodeLeaves(n) ==
    /\ n \in nodeSet
    /\ nodeSet' = nodeSet \ {n}
    /\ lastREST' = NoREST
    /\ UNCHANGED <<registry, declared, podStatus, currentNodes, sweepPc, sweepPods,
                   probePc, probeExists, absentAll, prevNodes>>
    /\ UNCHANGED nonCacheVars

\* the registry applies a Binding of the scheduler to an unassigned pod
RegistryBind(p, host) ==
    /\ registry[p].Host = NoHost
    /\ registry[p].Phase = PodPending
    /\ registry' = [registry EXCEPT ![p].Host = host]
    /\ lastREST' = NoREST
    /\ UNCHANGED <<nodeSet, declared, podStatus, currentNodes, sweepPc, sweepPods,
                   probePc, probeExists, absentAll, prevNodes>>
    /\ UNCHANGED nonCacheVars

\* the scheduler gives up on an unassigned pod: Status.UpdatePodStatus with
\* Phase Failed
RegistryFail(p) ==
    /\ registry[p].Host = NoHost
    /\ registry[p].Phase = PodPending
    /\ registry' = [registry EXCEPT ![p].Phase = PodFailed]
    /\ lastREST' = NoREST
    /\ UNCHANGED <<nodeSet, declared, podStatus, currentNodes, sweepPc, sweepPods,
                   probePc, probeExists, absentAll, prevNodes>>
    /\ UNCHANGED nonCacheVars

\* UpdateAllContainers up to the start of the probes: the node cache is
\* reset and the pods are listed; when ListPods fails the call returns
UpdateAllContainers ==
    /\ sweepPc = "idle"
    /\ prevNodes' = {n \in CacheNodes : currentNodes[n] = "yes"}
    /\ currentNodes' = resetNodeExistenceCache(currentNodes)
    /\ absentAll' = CacheNodes \ nodeSet
    /\ \/ /\ sweepPods' = registry
          /\ probePc' = [p \in CachePods |-> "check"]
          /\ sweepPc' = "probing"
       \/ /\ sweepPods' = [p \in CachePods |-> NoStatus]
          /\ probePc' = [p \in CachePods |-> "none"]
          /\ sweepPc' = "idle"
    /\ lastREST' = NoREST
    /\ UNCHANGED <<nodeSet, registry, declared, podStatus, probeExists>>
    /\ UNCHANGED nonCacheVars

\* a probe starts computePodStatus: a pod without a host keeps its status;
\* for one with a host nodeExists reads the cache, and on a hit the probe
\* goes on to GetPodInfo and stores the new status
ProbeCheck(p) ==
    /\ probePc[p] = "check"
    /\ LET status == sweepPods[p]
       IN IF status.Host = NoHost
          THEN /\ podStatus' = [podStatus EXCEPT ![p] = status]
               /\ probePc' = [probePc EXCEPT ![p] = "done"]
          ELSE IF currentNodes[status.Host] = "miss"
          THEN /\ probePc' = [probePc EXCEPT ![p] = "get"]
               /\ UNCHANGED podStatus
          ELSE /\ \E info \in PodInfoResults(declared[p]) :
                      podStatus' = [podStatus EXCEPT ![p] =
                          computePodStatus(status, declared[p],
                                           currentNodes[status.Host], info)]
               /\ probePc' = [probePc EXCEPT ![p] = "done"]
    /\ lastREST' = NoREST
    /\ UNCHANGED <<nodeSet, registry, declared, currentNodes, sweepPc, sweepPods,
                   probeExists, absentAll, prevNodes>>
    /\ UNCHANGED nonCacheVars

\* nodeExists after a miss: p.nodes.Get, where any error means the node
\* does not exist
ProbeGet(p) ==
    /\ probePc[p] = "get"
    /\ \E err \in BOOLEAN :
           probeExists' = [probeExists EXCEPT ![p] =
               IF sweepPods[p].Host \in nodeSet /\ ~err THEN "yes" ELSE "no"]
    /\ probePc' = [probePc EXCEPT ![p] = "store"]
    /\ lastREST' = NoREST
    /\ UNCHANGED <<nodeSet, registry, declared, podStatus, currentNodes, sweepPc,
                   sweepPods, absentAll, prevNodes>>
    /\ UNCHANGED nonCacheVars

\* nodeExists writes the answer into the cache; the probe goes on to
\* GetPodInfo and stores the new status
ProbeStore(p) ==
    /\ probePc[p] = "store"
    /\ currentNodes' = [currentNodes EXCEPT ![sweepPods[p].Host] = probeExists[p]]
    /\ \E info \in PodInfoResults(declared[p]) :
           podStatus' = [podStatus EXCEPT ![p] =
               computePodStatus(sweepPods[p], declared[p], probeExists[p], info)]
    /\ probePc' = [probePc EXCEPT ![p] = "done"]
    /\ probeExists' = [probeExists EXCEPT ![p] = "no"]
    /\ lastREST' = NoREST
    /\ UNCHANGED <<nodeSet, registry, declared, sweepPc, sweepPods, absentAll, prevNodes>>
    /\ UNCHANGED nonCacheVars

\* wg.Wait returns: every probe has stored its status
SweepEnds ==
    /\ sweepPc = "probing"
    /\ \A p \in CachePods : probePc[p] = "done"
    /\ sweepPc' = "idle"
    /\ lastREST' = NoREST
    /\ UNCHANGED <<nodeSet, registry, declared, podStatus, currentNodes, sweepPods,
                   probePc, probeExists, absentAll, prevNodes>>
    /\ UNCHANGED nonCacheVars

\* REST.Get of a pod the registry returns
Get(p) ==
    /\ lastREST' = [op |-> "Get", pods |-> {p},
                    status |-> [q \in {p} |-> RestStatus(registry[q], podStatus[q])]]
    /\ UNCHANGED <<nodeSet, registry, declared, podStatus, currentNodes, sweepPc,
                   sweepPods, probePc, probeExists, absentAll, prevNodes>>
    /\ UNCHANGED nonCacheVars

\* the selector labels.Everything()
Everything == 0 - 1

\* REST.List with a field selector on Status.Host (a host, NoHost for the
\* pods that have none) or with no selector, matched against the registry
List(sel) ==
    /\ LET items == {q \in CachePods : sel = Everything \/ registry[q].Host = sel}
       IN lastREST' = [op |-> "List", pods |-> items,
                       status |-> [q \in items |-> RestStatus(registry[q], podStatus[q])]]
    /\ UNCHANGED <<nodeSet, registry, declared, podStatus, currentNodes, sweepPc,
                   sweepPods, probePc, probeExists, absentAll, prevNodes>>
    /\ UNCHANGED nonCacheVars

CacheNext ==
    \/ \E n \in CacheNodes : NodeJoins(n)
    \/ \E n \in CacheNodes : NodeLeaves(n)
    \/ \E p \in CachePods, host \in CacheNodes : RegistryBind(p, host)
    \/ \E p \in CachePods : RegistryFail(p)
    \/ UpdateAllContainers
    \/ \E p \in CachePods : ProbeCheck(p)
    \/ \E p \in CachePods : ProbeGet(p)
    \/ \E p \in CachePods : ProbeStore(p)
    \/ SweepEnds

\* the same with the reads of the REST storage
RestNext ==
    \/ \E n \in CacheNodes : NodeJoins(n)
    \/ \E n \in CacheNodes : NodeLeaves(n)
    \/ \E p \in CachePods, host \in CacheNodes : RegistryBind(p, host)
    \/ \E p \in CachePods : RegistryFail(p)
    \/ UpdateAllContainers
    \/ \E p \in CachePods : ProbeCheck(p)
    \/ \E p \in CachePods : ProbeGet(p)
    \/ \E p \in CachePods : ProbeStore(p)
    \/ SweepEnds
    \/ \E p \in CachePods : Get(p)
    \/ \E sel \in {Everything, NoHost} \cup CacheNodes : List(sel)

\* C12: when a sweep has returned, every pod it listed with a Status.Host
\* that was absent from the node lookup all through the sweep has a cached
\* status of Phase Failed, whatever p.currentNodes held before the sweep.
C12_AbsentNodeFailed ==
    (sweepPc = "idle") =>
        \A p \in CachePods :
            (sweepPods[p] # NoStatus /\ sweepPods[p].Host \in absentAll)
                => podStatus[p].Phase = PodFailed

\* a sweep has returned that listed a pod on a node absent all through it,
\* a node the cache of the sweep before held as existing
C12_Witness ==
    /\ sweepPc = "idle"
    /\ \E p \in CachePods :
           /\ sweepPods[p] # NoStatus
           /\ sweepPods[p].Host \in absentAll
           /\ sweepPods[p].Host \in prevNodes
           /\ podStatus[p].Phase = PodFailed

\* C18: a cached status of Phase Running has a Host, and its Info is not
\* nil and reports every declared container as running or terminated and
\* at least one of them as running (so the pod declares a container).
C18_RunningHasRunningContainer ==
    \A p \in CachePods :
        podStatus[p].Phase = PodRunning =>
            /\ podStatus[p].Host # NoHost
            /\ ~podStatus[p].Info.nil
            /\ \E i \in 1..declared[p] : podStatus[p].Info.st[i] = "running"
            /\ \A i \in 1..declared[p] :
                   podStatus[p].Info.st[i] \in {"running", "terminated"}

\* a cached Running status of a pod one of whose containers has terminated
C18_Witness ==
    \E p \in CachePods :
        /\ podStatus[p].Phase = PodRunning
        /\ \E i \in 1..declared[p] : podStatus[p].Info.st[i] = "terminated"

\* C20: every pod REST Get or List returns carries the Status.Host of the
\* registry, and Phase Pending when the cache has no entry for it.
C20_RestHostFromRegistry ==
    \A p \in lastREST.pods :
        /\ lastREST.status[p].Host = registry[p].Host
        /\ podStatus[p] = NoStatus => lastREST.status[p].Phase = PodPending

\* List has returned a pod whose cached status holds an older Host than the
\* registry, and a pod the cache has no entry for
C20_Witness ==
    /\ lastREST.op = "List"
    /\ \E p \in lastREST.pods :
           podStatus[p] # NoStatus /\ podStatus[p].Host # registry[p].Host
    /\ \E p \in lastREST.pods : podStatus[p] = NoStatus

(***************************************************************************)
(* syncLoop reading a PodUpdate (kubelet.go): SET replaces kl.pods, UPDATE *)
(* merges the changed pods into it with updateBoundPods; both then apply   *)
(* filterHostPortConflicts.  The SyncPods call that ends the iteration is  *)
(* SyncPodsDispatch above.                                                 *)
(***************************************************************************)
NumUIDs == 3
MaxEventPods == 2

\* the versions of a pod: the HostPorts of its containers
PodVersions == { <<<<80>>>>, <<<<0>>>> }

BoundPods == [UID : 1..NumUIDs, Containers : PodVersions]

BoundPodLists == UNION {[1..n -> BoundPods] : n \in 0..MaxEventPods}

UIDsOf(list) == {list[i].UID : i \in 1..Len(list)}

\* m[pod.UID] = pod over the changed pods in order: the last pod of a UID
LastOfUID(changed, uid) ==
    changed[CHOOSE i \in 1..Len(changed) :
               /\ changed[i].UID = uid
               /\ \A j \in (i + 1)..Len(changed) : changed[j].UID # uid]

\* updateBoundPods that also appends the changed pods of an unknown UID
updateBoundPodsAdding(changed, current) ==
    [i \in 1..Len(current) |->
        IF current[i].UID \in UIDsOf(changed) THEN LastOfUID(changed, current[i].UID)
        ELSE current[i]]
    \o FilterSeq(changed, {c \in Range(changed) : c.UID \notin UIDsOf(current)})

updateBoundPods(changed, current) ==
    [i \in 1..Len(current) |->
        IF current[i].UID \in UIDsOf(changed) THEN LastOfUID(changed, current[i].UID)
        ELSE current[i]]

\* filterHostPortConflicts on a list of BoundPods
filterBoundPods(list) ==
    LET kept == filterHostPortConflicts([i \in 1..Len(list) |-> list[i].Containers])
    IN  [n \in 1..Len(kept) |-> list[kept[n]]]

LoopInit ==
    /\ boundPods = << >>
    /\ lastEvent = [Op |-> "none", Pods |-> << >>, before |-> << >>, merged |-> << >>]

\* case SET
SyncLoopOpSET ==
    \E u \in BoundPodLists :
        /\ boundPods' = filterBoundPods(u)
        /\ lastEvent' = [Op |-> "SET", Pods |-> u, before |-> boundPods, merged |-> u]
        /\ UNCHANGED nonLoopVars

\* case UPDATE
SyncLoopOpUPDATE ==
    \E u \in BoundPodLists :
        LET merged == updateBoundPods(u, boundPods)
        IN  /\ boundPods' = filterBoundPods(merged)
            /\ lastEvent' = [Op |-> "UPDATE", Pods |-> u, before |-> boundPods,
                             merged |-> merged]
            /\ UNCHANGED nonLoopVars

LoopNext ==
    \/ SyncLoopOpSET
    \/ SyncLoopOpUPDATE

\* list a is list b with some of its entries left out
RECURSIVE IsSubSeq(_, _)
IsSubSeq(a, b) ==
    IF a = << >> THEN TRUE
    ELSE IF b = << >> THEN FALSE
    ELSE IF Head(a) = Head(b) THEN IsSubSeq(Tail(a), Tail(b))
    ELSE IsSubSeq(a, Tail(b))

NumServerPods == 1
NoPodID == 0
ServerPodIDs == NoPodID..NumServerPods
ServerNamespaces == {"", "default"}
ServerImages == {"", "img"}
ServerBodies == {"json", "invalid", "unreadable"}

StatusOK == 200
StatusBadRequest == 400
StatusNotFound == 404
StatusInternalServerError == 500

\* GetPodFullName of the BoundPod a handler builds from the request
GetPodFullName(id, ns) == <<id, ns, "etcd">>

\* the pods SyncLoop may have stored in kl.pods
ServerNames == {GetPodFullName(id, "default") : id \in 1..NumServerPods}

ErrNil == "nil"
ErrNotCalled == "not called"
ErrNoContainersInPod == "no containers exist for this pod"
ErrDocker == "docker error"
ErrUnsupported == "OpPod does not support"
ErrImageExists == "already exists, can't push again"
ErrInspect == "Failed to inspect image"
Panic == "panic: nil pointer dereference"

\* the points at which the docker daemon may fail a host function
OpFailures == {"none", "docker"}
PushFailures == {"none", "inspect", "list", "container", "commit", "push", "update"}

\* Kubelet.OpPod: the error it returns
OpPod(bound, podFullName, op, fail) ==
    IF podFullName \notin bound THEN ErrNoContainersInPod
    ELSE IF op \in {"start", "stop"}
         THEN (IF fail = "docker" THEN ErrDocker ELSE ErrNil)
         ELSE ErrUnsupported

\* Kubelet.PushImage: the error it returns, or the panic of pod.Spec on the
\* nil pod the search of kl.pods leaves when no pod has the name
PushImage(bound, images, params, fail) ==
    IF params.image \in images THEN ErrImageExists
    ELSE IF fail = "inspect" THEN ErrInspect
    ELSE IF fail = "list" THEN ErrDocker
    ELSE IF GetPodFullName(params.podID, params.podNamespace) \notin bound THEN Panic
    ELSE IF fail \in {"container", "commit", "push", "update"} THEN ErrDocker
    ELSE ErrNil

\* PushImage got as far as a successful CommitContainer
PushCommits(bound, images, params, fail) ==
    /\ params.image \notin images
    /\ GetPodFullName(params.podID, params.podNamespace) \in bound
    /\ fail \in {"none", "push", "update"}

\* Kubelet.UpdatePodCgroup, UpdatePodDisk and MergeContainer
UpdatePodCgroup(bound, podFullName, fail) ==
    IF podFullName \notin bound THEN ErrNoContainersInPod
    ELSE IF fail = "docker" THEN ErrDocker ELSE ErrNil

UpdatePodDisk(bound, podFullName, fail) ==
    IF podFullName \notin bound THEN ErrNoContainersInPod
    ELSE IF fail = "docker" THEN ErrDocker ELSE ErrNil

MergeContainer(bound, podFullName, fail) ==
    IF podFullName \notin bound THEN ErrNoContainersInPod
    ELSE IF fail = "docker" THEN ErrDocker ELSE ErrNil

\* http.Error(w, text, status), also Server.error with status 500
HttpError(host, text, status) ==
    [err |-> host, resp |-> [status |-> status, json |-> FALSE, body |-> text]]

\* the handler panicked: net/http recovers, closes the connection and no
\* response is written
NoResponse(host) ==
    [err |-> host, resp |-> [status |-> 0, json |-> FALSE, body |-> ""]]

\* the marshalled PodOpResult or ImageOpResult written with status 200
WriteResult(op, host, failCode) ==
    [err |-> host,
     resp |-> [status |-> StatusOK, json |-> TRUE,
               body |-> [op |-> op,
                         code |-> IF host = ErrNil THEN 0 ELSE failCode,
                         errorMsg |-> IF host = ErrNil THEN "success" ELSE host]]]

\* Server.handlePodOp
handlePodOp(bound, q, fail) ==
    IF q.podID = NoPodID
    THEN HttpError(ErrNotCalled, "Missing 'podID=' query entry.", StatusBadRequest)
    ELSE IF q.podNamespace = ""
    THEN HttpError(ErrNotCalled, "Missing 'podNamespace=' query entry.", StatusBadRequest)
    ELSE LET err == OpPod(bound, GetPodFullName(q.podID, q.podNamespace), q.op, fail)
         IN  IF err = ErrNoContainersInPod
             THEN HttpError(err, "api.BoundPod does not exist", StatusNotFound)
             ELSE WriteResult(q.op, err, 0 - 1)

\* the checks of the posted fields that the push, cgroup, disk and merge
\* cases share: the text of the 400 answer, or "" when all are present
MissingEntry(q, third) ==
    IF q.podID = NoPodID THEN "Missing 'podID' post entry."
    ELSE IF q.podNamespace = "" THEN "Missing 'podNamespace' post entry."
    ELSE IF third = "" THEN "Missing post entry."
    ELSE ""

\* Server.handleImage
handleImage(bound, images, q, fail) ==
    IF q.method = ""
    THEN HttpError(ErrNotCalled, "Internal Error: request url error", StatusInternalServerError)
    ELSE IF q.body = "unreadable"
    THEN HttpError(ErrNotCalled, "Internal Error: read", StatusInternalServerError)
    ELSE IF q.method # "push"
    THEN HttpError(ErrNotCalled, "Internal Error: unknown method", StatusInternalServerError)
    ELSE IF q.body = "invalid"
    THEN HttpError(ErrNotCalled, "Internal Error: unmarshal", StatusInternalServerError)
    ELSE IF MissingEntry(q, q.image) # ""
    THEN HttpError(ErrNotCalled, MissingEntry(q, q.image), StatusBadRequest)
    ELSE LET err == PushImage(bound, images, q, fail)
         IN  IF err = Panic THEN NoResponse(err)
             ELSE WriteResult(q.method, err, 1)

\* Server.handlePodUpgrade
handlePodUpgrade(bound, q, fail) ==
    IF q.method = ""
    THEN HttpError(ErrNotCalled, "Internal Error: request url error", StatusInternalServerError)
    ELSE IF q.body = "unreadable"
    THEN HttpError(ErrNotCalled, "Internal Error: read", StatusInternalServerError)
    ELSE IF q.method \notin {"cgroup", "disk", "merge"}
    THEN HttpError(ErrNotCalled, "Internal Error: unknown method", StatusInternalServerError)
    ELSE IF q.body = "invalid"
    THEN HttpError(ErrNotCalled, "Internal Error: unmarshal", StatusInternalServerError)
    ELSE LET third == IF q.method = "merge" THEN q.image ELSE q.writeSubsystem
             name == GetPodFullName(q.podID, q.podNamespace)
             err == IF q.method = "cgroup" THEN UpdatePodCgroup(bound, name, fail)
                    ELSE IF q.method = "disk" THEN UpdatePodDisk(bound, name, fail)
                    ELSE MergeContainer(bound, name, fail)
         IN  IF MissingEntry(q, third) # ""
             THEN HttpError(ErrNotCalled, MissingEntry(q, third), StatusBadRequest)
             ELSE WriteResult(q.method, err, 1)

Request(path, method, body, id, ns, op, image, ws) ==
    [path |-> path, method |-> method, body |-> body, podID |-> id,
     podNamespace |-> ns, op |-> op, image |-> image, writeSubsystem |-> ws]

NoHTTP ==
    [req |-> Request("", "", "", NoPodID, "", "", "", ""), err |-> ErrNotCalled,
     resp |-> [status |-> 0, json |-> FALSE, body |-> ""]]

ServerInit ==
    /\ hostPods \in SUBSET ServerNames
    /\ hostImages \in SUBSET (ServerImages \ {""})
    /\ hostRunning = hostPods
    /\ lastHTTP = NoHTTP

\* POST /podOp?podID=&op=&podNamespace=
HandlePodOp ==
    \E id \in ServerPodIDs, ns \in ServerNamespaces, op \in {"start", "stop", "pause"},
       fail \in OpFailures, partly \in BOOLEAN :
        LET q == Request("/podOp", "", "", id, ns, op, "", "")
            out == handlePodOp(hostPods, q, fail)
            name == GetPodFullName(id, ns)
            after == IF op = "start" THEN hostRunning \cup {name} ELSE hostRunning \ {name}
        IN  /\ lastHTTP' = [req |-> q, err |-> out.err, resp |-> out.resp]
            /\ hostRunning' = IF out.err = ErrNil \/ (out.err = ErrDocker /\ partly)
                              THEN after ELSE hostRunning
            /\ UNCHANGED <<hostPods, hostImages>>
            /\ UNCHANGED nonServerVars

\* POST /image/{method}
HandleImage ==
    \E method \in {"", "push", "rm"}, body \in ServerBodies, id \in ServerPodIDs,
       ns \in ServerNamespaces, image \in ServerImages, fail \in PushFailures :
        LET q == Request("/image/", method, body, id, ns, "", image, "")
            out == handleImage(hostPods, hostImages, q, fail)
        IN  /\ lastHTTP' = [req |-> q, err |-> out.err, resp |-> out.resp]
            /\ hostImages' = IF out.err # ErrNotCalled /\ PushCommits(hostPods, hostImages, q, fail)
                             THEN hostImages \cup {image} ELSE hostImages
            /\ UNCHANGED <<hostPods, hostRunning>>
            /\ UNCHANGED nonServerVars

\* POST /podUpgrade/{method}
HandlePodUpgrade ==
    \E method \in {"", "cgroup", "disk", "merge", "net"}, body \in ServerBodies,
       id \in ServerPodIDs, ns \in ServerNamespaces, image \in ServerImages,
       ws \in {"", "cpu"}, fail \in OpFailures :
        LET q == Request("/podUpgrade/", method, body, id, ns, "", image, ws)
            out == handlePodUpgrade(hostPods, q, fail)
        IN  /\ lastHTTP' = [req |-> q, err |-> out.err, resp |-> out.resp]
            /\ UNCHANGED <<hostPods, hostImages, hostRunning>>
            /\ UNCHANGED nonServerVars

\* the sync loop stores the pods of an update in kl.pods; SyncPods kills the
\* containers of the pods that are gone
ServerPodsUpdate ==
    \E ps \in SUBSET ServerNames :
        /\ ps # hostPods
        /\ hostPods' = ps
        /\ hostRunning' = hostRunning \cap ps
        /\ UNCHANGED <<hostImages, lastHTTP>>
        /\ UNCHANGED nonServerVars

\* an image is removed from the local docker daemon
ServerImageRemoved ==
    \E i \in hostImages :
        /\ hostImages' = hostImages \ {i}
        /\ UNCHANGED <<hostPods, hostRunning, lastHTTP>>
        /\ UNCHANGED nonServerVars

ServerNext ==
    \/ HandlePodOp
    \/ HandleImage
    \/ HandlePodUpgrade
    \/ ServerPodsUpdate
    \/ ServerImageRemoved

\* a request that names a known operation and has every field of it
WellFormed(q) ==
    /\ q.podID # NoPodID /\ q.podNamespace # ""
    /\ \/ q.path = "/podOp" /\ q.op \in {"start", "stop"}
       \/ q.path = "/image/" /\ q.method = "push" /\ q.body = "json" /\ q.image # ""
       \/ /\ q.path = "/podUpgrade/" /\ q.body = "json"
          /\ \/ q.method \in {"cgroup", "disk"} /\ q.writeSubsystem # ""
             \/ q.method = "merge" /\ q.image # ""

\* C19: every well-formed request to an operation endpoint is answered with
\* status 200 and a result whose code is 0 when the host function returned
\* no error and 1 when it failed, the error text being in errorMsg
C19_OperationResultIn200 ==
    WellFormed(lastHTTP.req) =>
        /\ lastHTTP.resp.status = StatusOK
        /\ lastHTTP.resp.json
        /\ lastHTTP.resp.body.code = (IF lastHTTP.err = ErrNil THEN 0 ELSE 1)
        /\ lastHTTP.err # ErrNil => lastHTTP.resp.body.errorMsg = lastHTTP.err

(***************************************************************************)
(* runContainer from StartContainer on, killContainerByID, and the disk    *)
(* quota of a container (addDiskQuota, removeDiskQuota, refreshProjfile),  *)
(* for containers that goroutines run and kill side by side.  A name and a *)
(* line of a file are strings of characters.                               *)
(***************************************************************************)
NumQuotaContainers == 2

QuotaContainers == 1..NumQuotaContainers

\* networkContainerName, character by character
NetName == <<"n", "e", "t">>

\* the names of the containers
QuotaNames == {<<"d", "b">>, <<"d", "b", "x">>, NetName}

\* "/data/docker-volumes/"
VolumePath ==
    <<"/", "d", "a", "t", "a", "/", "d", "o", "c", "k", "e", "r", "-",
      "v", "o", "l", "u", "m", "e", "s", "/">>

\* data.State.Pid % 0xFFFF of a container, in decimal
PidText(c) == <<"7", ToString(c)>>

\* fmt.Sprintf("%d:/data/docker-volumes/%s", pid, name)
ProjectsLine(name, c) == PidText(c) \o <<":">> \o VolumePath \o name

\* fmt.Sprintf("%s:%d", name, pid)
ProjidLine(name, c) == name \o <<":">> \o PidText(c)

\* strings.Contains
Contains(text, substr) ==
    \E i \in 1..(Len(text) - Len(substr) + 1) :
        SubSeq(text, i, i + Len(substr) - 1) = substr

\* refreshProjfile, which holds kl.refLock from its first to its last
\* statement: the lines of the file afterwards
refreshProjfile(lines, data, filter) ==
    LET Kept(line) == ~Contains(line, filter)
    IN SelectSeq(lines, Kept) \o (IF data = << >> THEN << >> ELSE <<data>>)

\* what xfs_quota answers to "project -C name": it finds the project of a
\* name in /etc/projid
ProjectClear(idLines, name) ==
    IF \E i \in 1..Len(idLines) :
           /\ Len(idLines[i]) > Len(name)
           /\ SubSeq(idLines[i], 1, Len(name) + 1) = name \o <<":">>
    THEN {"cleared", "failed"}
    ELSE {"no such project", "failed"}

\* a killContainerByID that stops the container whatever removeDiskQuota
\* returned
killContainerByIDAlwaysStops(name, quotaErr) == TRUE

\* killContainerByID: is StopContainer sent, removeDiskQuota having
\* returned an error or not?
killContainerByID(name, quotaErr) == name = NetName \/ ~quotaErr

QuotaIdlePc == [pc |-> "idle", name |-> << >>, calls |-> << >>, ret |-> "none"]

\* containers that are not created yet; the net container has no
\* Lifecycle and no Disk
QuotaInit ==
    /\ dock \in [QuotaContainers ->
                   {[name |-> n, disk |-> d, postStart |-> h, state |-> "none"] :
                       n \in QuotaNames \ {NetName}, d \in {0, 1}, h \in BOOLEAN}
                   \cup {[name |-> NetName, disk |-> 0, postStart |-> FALSE,
                          state |-> "none"]}]
    /\ projects = << >>
    /\ projid = << >>
    /\ quotaPc = [c \in QuotaContainers |-> QuotaIdlePc]
    /\ quotaSet = {}

\* runContainer up to the PostStart handler
RunContainerStart(c) ==
    /\ dock[c].state = "none"
    /\ quotaPc[c].pc = "idle"
    /\ \E fail \in {"none", "create", "start", "postStart"} :
           LET at(pc, calls, ret) ==
                   [quotaPc EXCEPT ![c] = [pc |-> pc, name |-> dock[c].name,
                                           calls |-> calls, ret |-> ret]]
           IN IF fail = "create"
              THEN /\ dock' = dock
                   /\ quotaPc' = at("idle", <<"CreateContainer">>, "err")
              ELSE IF fail = "start"
              THEN /\ dock' = [dock EXCEPT ![c].state = "created"]
                   /\ quotaPc' = at("idle", <<"CreateContainer", "StartContainer">>, "err")
              ELSE /\ dock' = [dock EXCEPT ![c].state = "running"]
                   /\ IF ~dock[c].postStart
                      THEN quotaPc' = at("quota", <<"CreateContainer", "StartContainer">>,
                                         "none")
                      ELSE IF fail = "postStart"
                      THEN \* kl.killContainerByID(dockerContainer.ID, "")
                           quotaPc' = [quotaPc EXCEPT ![c] =
                               [pc |-> "kill", name |-> << >>,
                                calls |-> <<"CreateContainer", "StartContainer",
                                            "PostStart">>,
                                ret |-> "none"]]
                      ELSE quotaPc' = at("quota", <<"CreateContainer", "StartContainer",
                                                    "PostStart">>, "none")
    /\ UNCHANGED <<projects, projid, quotaSet>>
    /\ UNCHANGED nonQuotaVars

\* runContainer after the handler: addDiskQuota up to its first refresh
AddDiskQuota(c) ==
    /\ quotaPc[c].pc = "quota"
    /\ \E fail \in {"none", "inspect"} :
           quotaPc' = [quotaPc EXCEPT ![c] =
               IF dock[c].name = NetName
               THEN [@ EXCEPT !.pc = "idle", !.ret = "nil"]
               ELSE IF dock[c].disk <= 0
               THEN [@ EXCEPT !.pc = "extras", !.calls = Append(@, "addDiskQuota")]
               ELSE IF fail = "inspect"
               THEN [@ EXCEPT !.pc = "idle", !.ret = "err",
                              !.calls = Append(@, "addDiskQuota")]
               ELSE [@ EXCEPT !.pc = "addProjects", !.calls = Append(@, "addDiskQuota")]]
    /\ UNCHANGED <<dock, projects, projid, quotaSet>>
    /\ UNCHANGED nonQuotaVars

\* addDiskQuota refreshes /etc/projects
AddProjects(c) ==
    /\ quotaPc[c].pc = "addProjects"
    /\ projects' = refreshProjfile(projects, ProjectsLine(quotaPc[c].name, c),
                                    quotaPc[c].name)
    /\ quotaPc' = [quotaPc EXCEPT ![c].pc = "addProjid"]
    /\ UNCHANGED <<dock, projid, quotaSet>>
    /\ UNCHANGED nonQuotaVars

\* addDiskQuota refreshes /etc/projid and runs xfs_quota
AddProjid(c) ==
    /\ quotaPc[c].pc = "addProjid"
    /\ projid' = refreshProjfile(projid, ProjidLine(quotaPc[c].name, c), quotaPc[c].name)
    /\ quotaSet' = quotaSet \cup {c}
    /\ \E fail \in {"none", "xfs_quota"} :
           quotaPc' = [quotaPc EXCEPT ![c] =
               IF fail = "none" THEN [@ EXCEPT !.pc = "extras"]
               ELSE [@ EXCEPT !.pc = "idle", !.ret = "err"]]
    /\ UNCHANGED <<dock, projects>>
    /\ UNCHANGED nonQuotaVars

\* the end of runContainer: setupSriov for a pod whose mode is sriov, and
\* blkio.SetUp for a container with a Blkio
RunContainerEnd(c) ==
    /\ quotaPc[c].pc = "extras"
    /\ \E sriov \in BOOLEAN, blkio \in BOOLEAN, fail \in {"none", "sriov", "blkio"} :
           LET afterSriov == IF sriov THEN Append(quotaPc[c].calls, "setupSriov")
                             ELSE quotaPc[c].calls
           IN quotaPc' = [quotaPc EXCEPT ![c] =
                  IF sriov /\ fail = "sriov"
                  THEN [@ EXCEPT !.pc = "idle", !.ret = "err", !.calls = afterSriov]
                  ELSE IF blkio
                  THEN [@ EXCEPT !.pc = "idle",
                                 !.ret = IF fail = "blkio" THEN "err" ELSE "nil",
                                 !.calls = Append(afterSriov, "blkio.SetUp")]
                  ELSE [@ EXCEPT !.pc = "idle", !.ret = "nil", !.calls = afterSriov]]
    /\ UNCHANGED <<dock, projects, projid, quotaSet>>
    /\ UNCHANGED nonQuotaVars

\* StopContainer, the last statement of killContainerByID; runContainer
\* drops what killContainerByID returns and returns its own error
StopSent(c, calls) ==
    \E stopped \in BOOLEAN :
        /\ dock' = [dock EXCEPT ![c].state = IF stopped THEN "stopped" ELSE @]
        /\ quotaPc' = [quotaPc EXCEPT ![c] =
               [@ EXCEPT !.pc = "idle",
                         !.calls = Append(calls, "StopContainer"),
                         !.ret = IF stopped /\ ~Contains(calls, <<"CreateContainer">>)
                                 THEN "nil" ELSE "err"]]

\* killContainerByID with a name, up to the first refresh of removeDiskQuota
KillByID(c, name, calls) ==
    IF name = NetName
    THEN StopSent(c, calls) /\ UNCHANGED <<projects, projid, quotaSet>>
    ELSE \E res \in {"inspect failed"} \cup ProjectClear(projid, name) :
             /\ UNCHANGED <<projects, projid, quotaSet>>
             /\ IF res = "cleared"
                THEN /\ dock' = dock
                     /\ quotaPc' = [quotaPc EXCEPT ![c] =
                            [pc |-> "rmProjects", name |-> name,
                             calls |-> Append(calls, "removeDiskQuota"), ret |-> "none"]]
                ELSE IF killContainerByID(name, res # "no such project")
                THEN StopSent(c, calls \o <<"removeDiskQuota",
                                 IF res = "no such project" THEN "nil" ELSE "err">>)
                ELSE /\ dock' = dock
                     /\ quotaPc' = [quotaPc EXCEPT ![c] =
                            [pc |-> "idle", name |-> name,
                             calls |-> calls \o <<"removeDiskQuota", "err">>,
                             ret |-> "err"]]

\* killContainer on a running container: killContainerByID with the name
\* in Names[0]
KillContainerByName(c) ==
    /\ dock[c].state = "running"
    /\ quotaPc[c].pc = "idle"
    /\ KillByID(c, dock[c].name, << >>)
    /\ UNCHANGED nonQuotaVars

\* runContainer kills the container whose PostStart handler failed
PostStartKill(c) ==
    /\ quotaPc[c].pc = "kill"
    /\ KillByID(c, quotaPc[c].name, quotaPc[c].calls)
    /\ UNCHANGED nonQuotaVars

\* removeDiskQuota refreshes /etc/projects
RemoveProjects(c) ==
    /\ quotaPc[c].pc = "rmProjects"
    /\ projects' = refreshProjfile(projects, << >>, quotaPc[c].name)
    /\ quotaPc' = [quotaPc EXCEPT ![c].pc = "rmProjid"]
    /\ UNCHANGED <<dock, projid, quotaSet>>
    /\ UNCHANGED nonQuotaVars

\* removeDiskQuota refreshes /etc/projid and returns nil; killContainerByID
\* goes on to StopContainer
RemoveProjid(c) ==
    /\ quotaPc[c].pc = "rmProjid"
    /\ projid' = refreshProjfile(projid, << >>, quotaPc[c].name)
    /\ quotaSet' = quotaSet \ {c}
    /\ projects' = projects
    /\ IF killContainerByID(quotaPc[c].name, FALSE)
       THEN StopSent(c, Append(quotaPc[c].calls, "nil"))
       ELSE /\ dock' = dock
            /\ quotaPc' = [quotaPc EXCEPT ![c].pc = "idle", ![c].ret = "err"]
    /\ UNCHANGED nonQuotaVars

QuotaNext ==
    \/ \E c \in QuotaContainers : RunContainerStart(c)
    \/ \E c \in QuotaContainers : AddDiskQuota(c)
    \/ \E c \in QuotaContainers : AddProjects(c)
    \/ \E c \in QuotaContainers : AddProjid(c)
    \/ \E c \in QuotaContainers : RunContainerEnd(c)
    \/ \E c \in QuotaContainers : KillContainerByName(c)
    \/ \E c \in QuotaContainers : PostStartKill(c)
    \/ \E c \in QuotaContainers : RemoveProjects(c)
    \/ \E c \in QuotaContainers : RemoveProjid(c)

\* the position of a call in a list of calls, 0 when it was not made
CallAt(calls, call) ==
    IF \E i \in 1..Len(calls) : calls[i] = call
    THEN CHOOSE i \in 1..Len(calls) : calls[i] = call
    ELSE 0

\* the disk quota, sriov and blkio calls of runContainer
SetupCalls == {"addDiskQuota", "setupSriov", "blkio.SetUp"}

\* C32: in every runContainer the PostStart handler is run after
\* StartContainer and before addDiskQuota, setupSriov and blkio.SetUp; and
\* when a runContainer whose handler failed has returned, it has returned
\* an error, the container is not running, and none of the three was
\* called.
C32_PostStartOrderAndFailure ==
    \A c \in QuotaContainers :
        LET calls == quotaPc[c].calls
            handled == CallAt(calls, "PostStart")
            handlerFailed == handled > 0 /\ quotaPc[c].name = << >>
        IN /\ handled > 0 =>
                  /\ CallAt(calls, "StartContainer") \in 1..(handled - 1)
                  /\ \A i \in 1..handled : calls[i] \notin SetupCalls
           /\ (handlerFailed /\ quotaPc[c].pc = "idle") =>
                  /\ quotaPc[c].ret = "err"
                  /\ dock[c].state # "running"
                  /\ \A i \in 1..Len(calls) : calls[i] \notin SetupCalls

\* C39: a killContainerByID for a container that is not the net container
\* sends StopContainer only right after removeDiskQuota has returned nil;
\* when removeDiskQuota has returned an error (InspectContainer or
\* xfs_quota failed), the call has returned that error, has sent no
\* StopContainer, and the container is still running.
C39_StopOnlyAfterQuotaRemoved ==
    \A c \in QuotaContainers :
        LET calls == quotaPc[c].calls
        IN quotaPc[c].name # NetName =>
               /\ \A i \in 1..Len(calls) :
                      calls[i] = "StopContainer" =>
                          /\ i >= 3
                          /\ calls[i - 2] = "removeDiskQuota"
                          /\ calls[i - 1] = "nil"
               /\ \A i \in 1..(Len(calls) - 1) :
                      (calls[i] = "removeDiskQuota" /\ calls[i + 1] = "err") =>
                          /\ \A j \in 1..Len(calls) : calls[j] # "StopContainer"
                          /\ quotaPc[c].ret = "err"
                          /\ dock[c].state = "running"

\* a kill of one application container has failed in removeDiskQuota and
\* left it running, and the kill of another one has removed its lines from
\* the files and then stopped it
C39_Witness ==
    \E c, d \in QuotaContainers :
        /\ c # d
        /\ quotaPc[c].pc = "idle" /\ quotaPc[c].ret = "err"
        /\ dock[c].name # NetName /\ dock[c].state = "running"
        /\ CallAt(quotaPc[c].calls, "removeDiskQuota") = 1
        /\ dock[d].name # NetName /\ dock[d].disk > 0 /\ dock[d].state = "stopped"
        /\ quotaPc[d].calls = <<"removeDiskQuota", "nil", "StopContainer">>
        /\ quotaPc[d].ret = "nil"
        /\ d \notin quotaSet

\* C37: whenever no runContainer and no killContainerByID is under way,
\* /etc/projects holds exactly one line for every container whose
\* addDiskQuota has written its lines and whose removeDiskQuota has not
\* removed them since, that line is the container's own, and the file holds
\* no other line; the same for /etc/projid.
C37_OneLinePerQuota ==
    (\A c \in QuotaContainers : quotaPc[c].pc = "idle") =>
        /\ Len(projects) = Cardinality(quotaSet)
        /\ Len(projid) = Cardinality(quotaSet)
        /\ \A c \in quotaSet :
               /\ \E i \in 1..Len(projects) : projects[i] = ProjectsLine(dock[c].name, c)
               /\ \E i \in 1..Len(projid) : projid[i] = ProjidLine(dock[c].name, c)

(***************************************************************************)
(* Specifications.                                                         *)
(***************************************************************************)
PortsIdle == portPods = << >> /\ portFiltered = << >>

QuotaIdle ==
    /\ dock = << >> /\ projects = << >> /\ projid = << >>
    /\ quotaPc = << >> /\ quotaSet = {}

KubeIdle ==
    /\ containers = << >>
    /\ klPods = [nil |-> TRUE, uuids |-> {}, RestartPolicy |-> "Always",
                 Mode |-> PodNetworkModeBridge, Address |-> ""]
    /\ podDestroyed = {}
    /\ lxcfs = {}
    /\ syncPc = "off" /\ snapshot = {} /\ workerSnap = << >>
    /\ minimumGCAge = 0 /\ maxContainerCount = 0 /\ lastGC = << >>
    /\ lastSync = << >>

LoopIdle ==
    /\ boundPods = << >> /\ lastEvent = << >>

ServerIdle ==
    /\ hostPods = {} /\ hostImages = {} /\ hostRunning = {} /\ lastHTTP = << >>

CacheIdle ==
    /\ nodeSet = {} /\ registry = << >> /\ declared = << >> /\ podStatus = << >>
    /\ currentNodes = << >> /\ sweepPc = "off" /\ sweepPods = << >>
    /\ probePc = << >> /\ probeExists = << >> /\ absentAll = {}
    /\ prevNodes = {} /\ lastREST = << >>

\* the scheduler process
InitSched == SchedInit /\ WorkersInit /\ PortsIdle /\ KubeIdle /\ CacheIdle /\ ServerIdle /\ LoopIdle /\ QuotaIdle

SpecSched == InitSched /\ [][SchedNext]_vars

\* the scheduler loop with its poll loop running: scheduleOne's goroutine
\* tests CheckScheduledPod again every second
SpecSchedFair ==
    InitSched /\ [][SchedNext]_vars /\ WF_vars(ScheduleOneScheduled)

\* the worker pool under arbitrary Run calls
InitWorkers == WorkersInit /\ SchedIdle /\ PortsIdle /\ KubeIdle /\ CacheIdle /\ ServerIdle /\ LoopIdle /\ QuotaIdle

SpecWorkers == InitWorkers /\ [][WorkersNext]_vars

\* the host port filter under arbitrary SET updates
InitPorts == PortsInit /\ SchedIdle /\ WorkersInit /\ KubeIdle /\ CacheIdle /\ ServerIdle /\ LoopIdle /\ QuotaIdle

SpecPorts == InitPorts /\ [][PortsNext]_vars

\* the node agent's sync loop, its pod workers and the runtime
InitKubelet == KubeInit /\ SchedIdle /\ WorkersInit /\ PortsIdle /\ CacheIdle /\ ServerIdle /\ LoopIdle /\ QuotaIdle

SpecKubelet == InitKubelet /\ [][KubeNext]_vars

\* the node agent with pods that have a Network.Address
InitNetwork == NetworkInit /\ SchedIdle /\ WorkersInit /\ PortsIdle /\ CacheIdle /\ ServerIdle /\ LoopIdle /\ QuotaIdle

SpecNetwork == InitNetwork /\ [][KubeNext]_vars

InitKubeletFair == InitKubelet /\ klPods.RestartPolicy = "Always"

\* the node agent for pods of the restart policy Always, with its resync
\* timer firing, SyncPods running to its end and every worker goroutine
\* returning
SpecKubeletFair ==
    /\ InitKubeletFair
    /\ [][KubeNext]_vars
    /\ WF_vars(SyncLoopPeriodic)
    /\ WF_vars(SyncPodsDispatch)
    /\ \A p \in KubePods : WF_vars(SyncPodWorker(p))

\* the garbage collector against a runtime whose containers are run,
\* killed and aged in any order
InitGC == GCInit /\ SchedIdle /\ WorkersInit /\ PortsIdle /\ CacheIdle /\ ServerIdle /\ LoopIdle /\ QuotaIdle

SpecGC == InitGC /\ [][GCNext]_vars

\* SyncPods over updates that bind and unbind several pods
InitSyncPods == SyncPodsInit /\ SchedIdle /\ WorkersInit /\ PortsIdle /\ CacheIdle /\ ServerIdle /\ LoopIdle /\ QuotaIdle

SpecSyncPods == InitSyncPods /\ [][SyncPodsNext]_vars

\* the PodCache's sweeps, the registry and the node lookup changing under
\* them, and REST reads
InitPodCache == CacheInit /\ SchedIdle /\ WorkersInit /\ PortsIdle /\ KubeIdle /\ ServerIdle /\ LoopIdle /\ QuotaIdle

SpecPodCache == InitPodCache /\ [][CacheNext]_vars

\* the REST storage reading the registry and the PodCache between the steps
\* of the sweeps
InitRest == RestInit /\ SchedIdle /\ WorkersInit /\ PortsIdle /\ KubeIdle /\ ServerIdle /\ LoopIdle /\ QuotaIdle

SpecRest == InitRest /\ [][RestNext]_vars

\* the operation endpoints of the node agent's HTTP server
InitServer == ServerInit /\ SchedIdle /\ WorkersInit /\ PortsIdle /\ KubeIdle /\ CacheIdle /\ LoopIdle /\ QuotaIdle

SpecServer == InitServer /\ [][ServerNext]_vars

\* syncLoop reading SET and UPDATE events
InitLoop == LoopInit /\ SchedIdle /\ WorkersInit /\ PortsIdle /\ KubeIdle /\ CacheIdle /\ ServerIdle /\ QuotaIdle

SpecLoop == InitLoop /\ [][LoopNext]_vars

\* the scheduler over labelled nodes and selecting pods
InitPlace == PlaceInit /\ WorkersInit /\ PortsIdle /\ KubeIdle /\ CacheIdle /\ ServerIdle /\ LoopIdle /\ QuotaIdle

SpecPlace == InitPlace /\ [][SchedNext]_vars

\* containers run and killed side by side, with their disk quota
InitQuota == QuotaInit /\ SchedIdle /\ WorkersInit /\ PortsIdle /\ KubeIdle /\ CacheIdle /\ ServerIdle /\ LoopIdle

SpecQuota == InitQuota /\ [][QuotaNext]_vars

====
